---- MODULE Spec2Model ----
(***************************************************************************)
(* Model of the StepChain event splitter (job_splitters/event_splitter.py), *)
(* of the two schedule generators (micro_agent/create_stepchain_dag.py and *)
(* micro_agent/create_stepchain_jdl.py), of the output discovery of        *)
(* ep_scripts/stage_out.py and of the POST script micro_agent/postjob.py.  *)
(*                                                                         *)
(* Python values are modelled as follows.  An optional value (None or a    *)
(* value) is a sequence of length 0 or 1.  A str that the code only        *)
(* builds by formatting is a TLA+ string built with \o and ToString.  A    *)
(* file name, which the code both formats and parses, is a sequence of     *)
(* one-character strings.  A dict with str keys is a function whose        *)
(* domain is a set of strings.                                             *)
(***************************************************************************)
EXTENDS Integers, Sequences, FiniteSets, TLC

\* ------------------------------------------------------------------ bounds
MaxEvents == 3
MaxEventsPerJob == 2
MaxEventsPerLumi == 2
MaxSteps == 3

\* ------------------------------------------------------- optional values
None == <<>>

Some(v) == <<v>>

Val(o) == o[1]

\* dict.get(key, default) on an optional entry
GetOr(o, default) == IF o = None THEN default ELSE Val(o)

\* ------------------------------------------------------------ str helpers
\* "%s" % n for an int n
Str(n) == ToString(n)

\* "%r" % s for a str s without quotes or backslashes
Repr(s) == "'" \o s \o "'"

RECURSIVE JoinRepr(_)
\* the inside of "%s" % list_of_str: 'a', 'b', ...
JoinRepr(xs) ==
  IF xs = <<>> THEN ""
  ELSE IF Len(xs) = 1 THEN Repr(xs[1])
  ELSE Repr(xs[1]) \o ", " \o JoinRepr(Tail(xs))

\* "%s" % list_of_str
StrList(xs) == "[" \o JoinRepr(xs) \o "]"

RECURSIVE Concat(_)
\* "".join(tokens)
Concat(tokens) == IF tokens = <<>> THEN "" ELSE tokens[1] \o Concat(Tail(tokens))

\* ------------------------------------------------------------------ dicts
EmptyDict == [k \in {} |-> ""]

\* d[k] = v
Put(d, k, v) == [x \in (DOMAIN d) \cup {k} |-> IF x = k THEN v ELSE d[x]]

\* int(math.ceil(float(a) / float(b))) for b > 0
CeilDiv(a, b) == -((-a) \div b)

Min(a, b) == IF a <= b THEN a ELSE b

\* ------------------------------------------------- build_job_tweak_json
\* _mask_get_max_events without the + 1
_mask_get_max_events_NoPlusOne(mask) ==
  IF mask.FirstEvent = None \/ mask.LastEvent = None
  THEN None
  ELSE Some(Val(mask.LastEvent) - Val(mask.FirstEvent))

_mask_get_max_events(mask) ==
  IF mask.FirstEvent = None \/ mask.LastEvent = None
  THEN None
  ELSE Some(Val(mask.LastEvent) - Val(mask.FirstEvent) + 1)

\* mask.get("runAndLumis", {}): a sequence of <<run, lumi_pairs>> in dict order
_mask_get_run_and_lumis(mask) == GetOr(mask.runAndLumis, <<>>)

RECURSIVE PairsOfRun(_, _)
\* inner loop of lines 74-78 for one run
PairsOfRun(run, lumi_pairs) ==
  IF lumi_pairs = <<>> THEN <<>>
  ELSE (IF Len(lumi_pairs[1]) = 2
        THEN <<Str(run) \o ":" \o Str(lumi_pairs[1][1]) \o "-"
                 \o Str(run) \o ":" \o Str(lumi_pairs[1][2])>>
        ELSE <<>>)
       \o PairsOfRun(run, Tail(lumi_pairs))

\* the loop of lines 72-78 leaving after the first run
LumisToProcess_FirstRunOnly(runs) ==
  IF runs = <<>> THEN <<>> ELSE PairsOfRun(runs[1][1], runs[1][2])

RECURSIVE LumisToProcess(_)
\* outer loop of lines 72-78
LumisToProcess(runs) ==
  IF runs = <<>> THEN <<>>
  ELSE PairsOfRun(runs[1][1], runs[1][2]) \o LumisToProcess(Tail(runs))

\* truth value of an optional str: None and "" are false
Truthy(o) == o # None /\ Val(o) # ""

Uint32(n) == "customTypeCms.untracked.uint32(" \o Str(n) \o ")"

MaxEventsPSet(n) ==
  "customTypeCms.untracked.PSet(input=cms.untracked.int32(" \o Str(n) \o "))"

K_firstLumi == "process.source.firstLuminosityBlock"

K_maxEvents == "process.maxEvents"

K_firstEvent == "process.source.firstEvent"

K_firstRun == "process.source.firstRun"

K_lumisToProcess == "process.source.lumisToProcess"

K_fileNames == "process.source.fileNames"

K_fileName(module) == "process." \o module \o ".fileName"

\* build_job_tweak_json leaving out firstEvent for LHE input
build_job_tweak_json_LheNoFirstEvent(mask, lhe_input, chain_input_file, set_output_filename, output_module_name) ==
  LET t0 == EmptyDict
      t1 == IF mask.FirstLumi # None
            THEN Put(t0, K_firstLumi, Uint32(Val(mask.FirstLumi)))
            ELSE t0
      max_events == GetOr(_mask_get_max_events(mask), -1)
      t2 == Put(t1, K_maxEvents, MaxEventsPSet(max_events))
      t3 == IF mask.FirstEvent # None /\ ~lhe_input
            THEN Put(t2, K_firstEvent, Uint32(Val(mask.FirstEvent)))
            ELSE t2
      t4 == IF mask.FirstRun # None
            THEN Put(t3, K_firstRun, Uint32(Val(mask.FirstRun)))
            ELSE Put(t3, K_firstRun, Uint32(1))
      lumis_to_process == LumisToProcess(_mask_get_run_and_lumis(mask))
      t5 == IF lumis_to_process # <<>>
            THEN Put(t4, K_lumisToProcess,
                     "customTypeCms.untracked.VLuminosityBlockRange("
                       \o StrList(lumis_to_process) \o ")")
            ELSE t4
      t6 == IF Truthy(chain_input_file)
            THEN Put(Put(t5, K_fileNames,
                         "customTypeCms.untracked.vstring(["
                           \o Repr(Val(chain_input_file)) \o "])"),
                     K_maxEvents, MaxEventsPSet(-1))
            ELSE t5
      t7 == IF Truthy(set_output_filename) /\ Truthy(output_module_name)
            THEN Put(t6, K_fileName(Val(output_module_name)),
                     "customTypeCms.untracked.string("
                       \o Repr(Val(set_output_filename)) \o ")")
            ELSE t6
  IN t7

build_job_tweak_json(mask, lhe_input, chain_input_file, set_output_filename, output_module_name) ==
  LET t0 == EmptyDict
      t1 == IF mask.FirstLumi # None
            THEN Put(t0, K_firstLumi, Uint32(Val(mask.FirstLumi)))
            ELSE t0
      max_events == GetOr(_mask_get_max_events(mask), -1)
      t2 == Put(t1, K_maxEvents, MaxEventsPSet(max_events))
      t3 == IF mask.FirstEvent # None
            THEN Put(t2, K_firstEvent, Uint32(Val(mask.FirstEvent)))
            ELSE t2
      t4 == IF mask.FirstRun # None
            THEN Put(t3, K_firstRun, Uint32(Val(mask.FirstRun)))
            ELSE Put(t3, K_firstRun, Uint32(1))
      lumis_to_process == LumisToProcess(_mask_get_run_and_lumis(mask))
      t5 == IF lumis_to_process # <<>>
            THEN Put(t4, K_lumisToProcess,
                     "customTypeCms.untracked.VLuminosityBlockRange("
                       \o StrList(lumis_to_process) \o ")")
            ELSE t4
      t6 == IF Truthy(chain_input_file)
            THEN Put(Put(t5, K_fileNames,
                         "customTypeCms.untracked.vstring(["
                           \o Repr(Val(chain_input_file)) \o "])"),
                     K_maxEvents, MaxEventsPSet(-1))
            ELSE t5
      t7 == IF Truthy(set_output_filename) /\ Truthy(output_module_name)
            THEN Put(t6, K_fileName(Val(output_module_name)),
                     "customTypeCms.untracked.string("
                       \o Repr(Val(set_output_filename)) \o ")")
            ELSE t6
  IN t7


\* ------------------------------------------------------------ file names
Chars(n) == <<"0", "1", "2", "3", "4", "5", "6", "7", "8", "9">>[n + 1]

RECURSIVE Digits(_)
\* "%d" % n for n >= 0, as a sequence of characters
Digits(n) == IF n < 10 THEN <<Chars(n)>> ELSE Digits(n \div 10) \o <<Chars(n % 10)>>

DigitChars == {"0", "1", "2", "3", "4", "5", "6", "7", "8", "9"}

DigitValue(c) == CHOOSE d \in 0..9 : Chars(d) = c

RECURSIVE ParseInt(_)
\* int(s) for a non-empty sequence of digit characters
ParseInt(ds) ==
  IF Len(ds) = 1 THEN DigitValue(ds[1])
  ELSE 10 * ParseInt(SubSeq(ds, 1, Len(ds) - 1)) + DigitValue(ds[Len(ds)])

JobPrefix == <<"j", "o", "b">>

JsonSuffix == <<".", "j", "s", "o", "n">>

\* "job%d.json" % job_index
JobFileName(job_index) == JobPrefix \o Digits(job_index) \o JsonSuffix

\* "request_psets.tar.gz", kept as one token: no code takes it apart
TarballName == <<"request_psets.tar.gz">>

\* re.compile(r"^job(\d+)\.json$").match(name): group 1, or None
PatternMatch(name) ==
  LET n == Len(name)
      ds == SubSeq(name, 4, n - 5)
  IN IF /\ n >= 9
        /\ SubSeq(name, 1, 3) = JobPrefix
        /\ SubSeq(name, n - 4, n) = JsonSuffix
        /\ \A i \in 1..Len(ds) : ds[i] \in DigitChars
     THEN Some(ds)
     ELSE None

\* ------------------------------------------------------------------ state
VARIABLES
  req,          \* the request document (json.load of --request)
  splitting,    \* the splitting document (json.load of --splitting)
  args,         \* command-line arguments of the splitter beyond the two documents
  pc,           \* position of the splitter process
  err,          \* the exception that ended the splitter, kind "none" while running
  fileset,      \* the MCFakeFile built by build_mc_fileset_from_request
  subscription, \* the Subscription built by make_subscription
  masks,        \* the job masks returned by the job factory, in job order
  jobs_out,     \* generate_eventbased_jobs: the list of job descriptors
  job_id,       \* generate_eventbased_jobs: the running job index
  dir,          \* names of the files in the output directory
  written,      \* names this run has opened for writing, in order
  dpc,          \* position of job discovery (create_stepchain_dag)
  indices,      \* discover_job_files: the returned list
  t_in,         \* arguments of a direct build_job_tweak_json call
  t_out,        \* its result
  extra,        \* the request document: the keys only create_stepchain_jdl reads
  sitelist,     \* the --sitelist file: its lines, or None when it is no file
  post_src,     \* whether ep_scripts/postjob.py exists next to the package
  derr,         \* the SystemExit that ended create_stepchain_dag, if any
  dsites,       \* create_stepchain_dag.main: sites_str
  dag_file,     \* --output-dag: its lines, or None while it does not exist
  submit_file,  \* --output-submit: its settings, or None while it does not exist
  post_copy,    \* whether postjob.py was copied next to the DAG file
  jpc,          \* position of create_stepchain_jdl
  jerr,         \* the SystemExit that ended create_stepchain_jdl, if any
  req_params,   \* create_stepchain_jdl.main: req_params
  jsites,       \* create_stepchain_jdl.main: sites_str
  jdl_file,     \* --output-jdl: its settings, or None while it does not exist
  psets_isdir,  \* whether the --psets path, when given, is a directory
  archive,      \* request_psets.tar.gz: its members, or None while it does not exist
  stage_req,    \* stage_out --request: the document, or None when it is no file
  work_dir,     \* stage_out --work-dir: per step the listing of its directory, or None
  file_list,    \* discover_files_from_request: the returned list, None before the call
  cwd,          \* postjob: the names of the files in its working directory
  exits         \* postjob: the invocations so far, each with its argument and exit code

envVars == <<extra, sitelist, post_src>>

dagVars == <<derr, dsites, dag_file, submit_file, post_copy>>

jdlVars == <<jpc, jerr, req_params, jsites, jdl_file>>

hookVars == <<stage_req, work_dir, file_list, cwd, exits>>

schedVars == <<envVars, hookVars, dagVars, jdlVars>>

vars == <<req, splitting, args, pc, err, fileset, subscription, masks,
          jobs_out, job_id, dir, written, dpc, indices, t_in, t_out, schedVars,
          psets_isdir, archive>>

splitterVars == <<req, splitting, args, pc, err, fileset, subscription, masks,
                  jobs_out, job_id, dir, written, psets_isdir, archive>>

NoError == [kind |-> "none", field |-> ""]

Raise(kind, field) == [kind |-> kind, field |-> field]

\* keys of the request that the model lets be absent
ReqKeys == {"Step1", "StepChain", "TimePerEvent", "Memory", "PrepID",
            "StepName", "SizePerEvent"}

Has(key) == key \notin req.missing

\* ----------------------------------------------- generate_eventbased_jobs
\* the tuple of line 179 without StepChain
RequiredKeys_NoStepChain == <<"Step1", "TimePerEvent", "Memory", "PrepID">>

\* lines 179-181: the first key of the tuple that the request lacks
RequiredKeys == <<"Step1", "StepChain", "TimePerEvent", "Memory", "PrepID">>

FirstMissing(keys, missing) ==
  IF \E i \in 1..Len(keys) : keys[i] \in missing
  THEN Some(keys[CHOOSE i \in 1..Len(keys) :
                   /\ keys[i] \in missing
                   /\ \A j \in 1..(i - 1) : keys[j] \notin missing])
  ELSE None

\* lines 178-192: the error raised by the checks, or NoError
ValidateDocs(r, s) ==
  LET m == FirstMissing(RequiredKeys, r.missing)
  IN IF m # None THEN Raise("RuntimeError", Val(m))
     ELSE IF "Step1" \notin r.missing /\ "StepName" \in r.missing
          THEN Raise("RuntimeError", "StepName")
     ELSE IF ~s.hasProduction THEN Raise("RuntimeError", "Production")
     ELSE NoError

ReadAndValidate ==
  /\ pc = "start"
  /\ LET e == ValidateDocs(req, splitting)
     IN /\ err' = e
        /\ pc' = IF e = NoError THEN "validated" ELSE "failed"
  /\ UNCHANGED <<req, splitting, args, fileset, subscription, masks, jobs_out,
                 job_id, dir, written, dpc, indices, t_in, t_out>>
  /\ UNCHANGED schedVars
  /\ UNCHANGED <<psets_isdir, archive>>

\* list(range(a, a + n))
Range(a, n) == [i \in 1..(IF n > 0 THEN n ELSE 0) |-> a + i - 1]

\* build_mc_fileset_from_request with last_event one too far
build_mc_fileset_from_request_OffByOne(r) ==
  LET total_events == r.RequestNumEvents
      first_event == GetOr(r.FirstEvent, 1)
  IN IF "Step1" \in r.missing
     THEN [err |-> Raise("KeyError", "Step1"), fileset |-> None]
     ELSE IF r.EventsPerLumi = 0
     THEN [err |-> Raise("ZeroDivisionError", ""), fileset |-> None]
     ELSE IF "PrepID" \in r.missing
     THEN [err |-> Raise("KeyError", "PrepID"), fileset |-> None]
     ELSE IF "StepName" \in r.missing
     THEN [err |-> Raise("KeyError", "StepName"), fileset |-> None]
     ELSE [err |-> NoError,
           fileset |-> Some([lfn |-> "MCFakeFile",
                             events |-> total_events,
                             first_event |-> first_event,
                             last_event |-> first_event + total_events,
                             run |-> GetOr(r.RunNumber, 1),
                             lumis |-> Range(GetOr(r.FirstLumi, 1),
                                             CeilDiv(total_events, r.EventsPerLumi))])]

\* build_mc_fileset_from_request ignoring the RunNumber of the request
build_mc_fileset_from_request_RunOne(r) ==
  LET total_events == r.RequestNumEvents
      events_per_lumi == r.EventsPerLumi
      first_event == GetOr(r.FirstEvent, 1)
      first_lumi == GetOr(r.FirstLumi, 1)
      run_number == 1
  IN IF "Step1" \in r.missing
     THEN [err |-> Raise("KeyError", "Step1"), fileset |-> None]
     ELSE IF events_per_lumi = 0
     THEN [err |-> Raise("ZeroDivisionError", ""), fileset |-> None]
     ELSE IF "PrepID" \in r.missing
     THEN [err |-> Raise("KeyError", "PrepID"), fileset |-> None]
     ELSE IF "StepName" \in r.missing
     THEN [err |-> Raise("KeyError", "StepName"), fileset |-> None]
     ELSE [err |-> NoError,
           fileset |-> Some([lfn |-> "MCFakeFile",
                             events |-> total_events,
                             first_event |-> first_event,
                             last_event |-> first_event + total_events - 1,
                             run |-> run_number,
                             lumis |-> Range(first_lumi,
                                             CeilDiv(total_events, events_per_lumi))])]

\* lines 116-149; the result is [err, fileset]
build_mc_fileset_from_request(r) ==
  LET total_events == r.RequestNumEvents
      events_per_lumi == r.EventsPerLumi
      first_event == GetOr(r.FirstEvent, 1)
      first_lumi == GetOr(r.FirstLumi, 1)
      run_number == GetOr(r.RunNumber, 1)
  IN IF "Step1" \in r.missing
     THEN [err |-> Raise("KeyError", "Step1"), fileset |-> None]
     ELSE IF events_per_lumi = 0
     THEN [err |-> Raise("ZeroDivisionError", ""), fileset |-> None]
     ELSE IF "PrepID" \in r.missing
     THEN [err |-> Raise("KeyError", "PrepID"), fileset |-> None]
     ELSE IF "StepName" \in r.missing
     THEN [err |-> Raise("KeyError", "StepName"), fileset |-> None]
     ELSE [err |-> NoError,
           fileset |-> Some([lfn |-> "MCFakeFile",
                             events |-> total_events,
                             first_event |-> first_event,
                             last_event |-> first_event + total_events - 1,
                             run |-> run_number,
                             lumis |-> Range(first_lumi,
                                             CeilDiv(total_events, events_per_lumi))])]

\* make_subscription that ignores split_algo
make_subscription_FixedAlgo(fs, split_algo, task_type) ==
  [fileset |-> fs, split_algo |-> "EventBased", type |-> task_type]

\* lines 152-161
make_subscription(fs, split_algo, task_type) ==
  [fileset |-> fs, split_algo |-> split_algo, type |-> task_type]

\* lines 194-207
BuildFileset ==
  /\ pc = "validated"
  /\ IF ~splitting.hasProduction
     THEN /\ err' = Raise("TypeError", "")
          /\ pc' = "failed"
          /\ UNCHANGED <<fileset, subscription>>
     ELSE IF ~Has("Step1") \/ ~Has("StepName")
     THEN /\ err' = Raise("KeyError", IF Has("Step1") THEN "StepName" ELSE "Step1")
          /\ pc' = "failed"
          /\ UNCHANGED <<fileset, subscription>>
     ELSE LET b == build_mc_fileset_from_request(req)
          IN IF b.err # NoError
             THEN /\ err' = b.err
                  /\ pc' = "failed"
                  /\ UNCHANGED <<fileset, subscription>>
             ELSE /\ fileset' = b.fileset
                  /\ subscription' =
                       Some(make_subscription(Val(b.fileset), splitting.splitAlgo,
                                              "Production"))
                  /\ pc' = "subscribed"
                  /\ UNCHANGED err
  /\ UNCHANGED <<req, splitting, args, masks, jobs_out, job_id, dir, written,
                 dpc, indices, t_in, t_out>>
  /\ UNCHANGED schedVars
  /\ UNCHANGED <<psets_isdir, archive>>

\* lines 209-214: the performance dict
Performance ==
  /\ pc = "subscribed"
  /\ LET m == FirstMissing(<<"TimePerEvent", "SizePerEvent", "Memory">>, req.missing)
     IN IF m # None
        THEN err' = Raise("KeyError", Val(m)) /\ pc' = "failed"
        ELSE pc' = "performance" /\ UNCHANGED err
  /\ UNCHANGED <<req, splitting, args, fileset, subscription, masks, jobs_out,
                 job_id, dir, written, dpc, indices, t_in, t_out>>
  /\ UNCHANGED schedVars
  /\ UNCHANGED <<psets_isdir, archive>>

\* lines 216-221, SplitterFactory.__call__ (WMCore): looks the algorithm up by
\* the subscription's split_algo; only event-based splitting exists
SplitterFactory(sub) ==
  IF sub.split_algo # "EventBased"
  THEN Raise("UnsupportedAlgorithm", "splitAlgo")
  ELSE NoError

MakeFactory ==
  /\ pc = "performance"
  /\ LET e == SplitterFactory(Val(subscription))
     IN /\ err' = e
        /\ pc' = IF e = NoError THEN "factory" ELSE "failed"
  /\ UNCHANGED <<req, splitting, args, fileset, subscription, masks, jobs_out,
                 job_id, dir, written, dpc, indices, t_in, t_out>>
  /\ UNCHANGED schedVars
  /\ UNCHANGED <<psets_isdir, archive>>

\* the mask of job i (0-based) of the EventBased algorithm (WMCore) on an
\* MCFakeFile f
EventMask(f, i, events_per_job, events_per_lumi) ==
  LET first == f.first_event + i * events_per_job
      last == Min(first + events_per_job - 1, f.last_event)
      lumis_per_job == CeilDiv(last - first + 1, events_per_lumi)
      first_lumi == f.lumis[1] + i * CeilDiv(events_per_job, events_per_lumi)
  IN [inclusivemask |-> TRUE,
      FirstEvent |-> Some(first),
      LastEvent |-> Some(last),
      FirstLumi |-> Some(first_lumi),
      LastLumi |-> Some(first_lumi + lumis_per_job - 1),
      FirstRun |-> Some(f.run),
      LastRun |-> Some(f.run),
      runAndLumis |-> Some(<<>>)]

\* lines 224-231, the job factory call (WMCore EventBased); the result is
\* [err, masks]
EventBased(sub, events_per_job, events_per_lumi) ==
  LET f == sub.fileset
  IN IF events_per_job <= 0
     THEN [err |-> Raise("ConfigurationError", "events_per_job"), masks |-> <<>>]
     ELSE IF events_per_lumi <= 0
     THEN [err |-> Raise("ConfigurationError", "events_per_lumi"), masks |-> <<>>]
     ELSE IF f.events <= 0
     THEN [err |-> Raise("ConfigurationError", "RequestNumEvents"), masks |-> <<>>]
     ELSE [err |-> NoError,
           masks |-> [j \in 1..CeilDiv(f.events, events_per_job) |->
                        EventMask(f, j - 1, events_per_job, events_per_lumi)]]

\* lines 224-237
Split ==
  /\ pc = "factory"
  /\ LET r == EventBased(Val(subscription), splitting.events_per_job,
                         splitting.events_per_lumi)
     IN /\ err' = r.err
        /\ masks' = r.masks
        /\ pc' = IF r.err = NoError THEN "flatten" ELSE "failed"
  /\ jobs_out' = <<>>
  /\ job_id' = 1
  /\ UNCHANGED <<req, splitting, args, fileset, subscription, dir, written,
                 dpc, indices, t_in, t_out>>
  /\ UNCHANGED schedVars
  /\ UNCHANGED <<psets_isdir, archive>>

\* line 235: req.get("StepChain", 1)
NumSteps(r) == IF "StepChain" \in r.missing THEN 1 ELSE r.StepChain

\* req.get("Step<k>", {}).get("InputFromOutputModule", "RAWSIMoutput")
InputModule(r, k) == GetOr(r.InputFromOutputModule[k], "RAWSIMoutput")

\* StepTweak reading the chained input module from the previous step's entry
StepTweak_PrevModule(r, s, mask_dict, step_num) ==
  LET num_steps == NumSteps(r)
      output_module_name ==
        IF step_num < num_steps THEN Some(InputModule(r, step_num + 1)) ELSE None
      set_output_filename ==
        IF step_num < num_steps
        THEN Some("file:" \o Val(output_module_name) \o ".root")
        ELSE None
      chain_input_file ==
        IF step_num > 1
        THEN Some("file:../step" \o Str(step_num - 1) \o "/"
                    \o (IF step_num > 2 THEN InputModule(r, step_num - 1)
                        ELSE "RAWSIMoutput") \o ".root")
        ELSE None
  IN build_job_tweak_json(mask_dict, s.lheInputFiles, chain_input_file,
                          set_output_filename, output_module_name)

\* StepTweak renaming the output of the final step too
StepTweak_RenameLast(r, s, mask_dict, step_num) ==
  LET num_steps == NumSteps(r)
      output_module_name ==
        IF step_num < num_steps THEN Some(InputModule(r, step_num + 1))
        ELSE Some("RAWSIMoutput")
      set_output_filename == Some("file:" \o Val(output_module_name) \o ".root")
      chain_input_file ==
        IF step_num > 1
        THEN Some("file:../step" \o Str(step_num - 1) \o "/"
                    \o InputModule(r, step_num) \o ".root")
        ELSE None
  IN build_job_tweak_json(mask_dict, s.lheInputFiles, chain_input_file,
                          set_output_filename, output_module_name)

\* lines 253-272: the tweak of one step
StepTweak(r, s, mask_dict, step_num) ==
  LET num_steps == NumSteps(r)
      output_module_name ==
        IF step_num < num_steps THEN Some(InputModule(r, step_num + 1)) ELSE None
      set_output_filename ==
        IF step_num < num_steps
        THEN Some("file:" \o Val(output_module_name) \o ".root")
        ELSE None
      chain_input_file ==
        IF step_num > 1
        THEN Some("file:../step" \o Str(step_num - 1) \o "/"
                    \o InputModule(r, step_num) \o ".root")
        ELSE None
  IN build_job_tweak_json(mask_dict, s.lheInputFiles, chain_input_file,
                          set_output_filename, output_module_name)

\* lines 240-250
MaskDict(mask) ==
  [inclusivemask |-> mask.inclusivemask,
   FirstEvent |-> mask.FirstEvent,
   LastEvent |-> mask.LastEvent,
   FirstLumi |-> mask.FirstLumi,
   LastLumi |-> mask.LastLumi,
   FirstRun |-> mask.FirstRun,
   LastRun |-> mask.LastRun,
   runAndLumis |-> mask.runAndLumis]

StepOfKey(key) == CHOOSE k \in 1..MaxSteps : Str(k) = key

\* lines 251-272: tweaks, keyed by str(step_num)
BuildTweaks(r, s, mask) ==
  [key \in {Str(k) : k \in 1..NumSteps(r)} |->
     StepTweak(r, s, MaskDict(mask), StepOfKey(key))]

\* the running index stepping by two
NextJobId_Skip(id) == id + 2

\* line 274: job_id += 1
NextJobId(id) == id + 1

\* lines 238-274: one iteration of the flattening loop
BuildJob ==
  /\ pc = "flatten"
  /\ job_id <= Len(masks)
  /\ jobs_out' = Append(jobs_out, [job_index |-> job_id,
                                   tweaks |-> BuildTweaks(req, splitting, masks[job_id])])
  /\ job_id' = NextJobId(job_id)
  /\ UNCHANGED <<req, splitting, args, pc, err, fileset, subscription, masks,
                 dir, written, dpc, indices, t_in, t_out>>
  /\ UNCHANGED schedVars
  /\ UNCHANGED <<psets_isdir, archive>>

\* lines 276, 313-321: return jobs_out to the main block
Main ==
  /\ pc = "flatten"
  /\ job_id > Len(masks)
  /\ pc' = IF args.output_dir THEN "writing" ELSE "done"
  /\ UNCHANGED <<req, splitting, args, err, fileset, subscription, masks,
                 jobs_out, job_id, dir, written, dpc, indices, t_in, t_out>>
  /\ UNCHANGED schedVars
  /\ UNCHANGED <<psets_isdir, archive>>

\* ------------------------------------------------ write_jobs_to_output_dir
\* lines 297-300: one iteration of the per-job loop
WriteJob ==
  /\ pc = "writing"
  /\ Len(written) < Len(jobs_out)
  /\ LET job == jobs_out[Len(written) + 1]
         name == JobFileName(job.job_index)
     IN /\ dir' = dir \cup {name}
        /\ written' = Append(written, name)
  /\ UNCHANGED <<req, splitting, args, pc, err, fileset, subscription, masks,
                 jobs_out, job_id, dpc, indices, t_in, t_out>>
  /\ UNCHANGED schedVars
  /\ UNCHANGED <<psets_isdir, archive>>

\* lines 297-300 when the filesystem refuses: open() raises and leaves no
\* file, or json.dump raises and leaves the file it was writing; the OSError
\* of open() carries the path, and nothing catches either
WriteJobFails ==
  /\ pc = "writing"
  /\ Len(written) < Len(jobs_out)
  /\ LET job == jobs_out[Len(written) + 1]
         name == JobFileName(job.job_index)
     IN \E created \in BOOLEAN :
          /\ dir' = IF created THEN dir \cup {name} ELSE dir
          /\ err' = Raise("OSError", IF created THEN "" ELSE Concat(name))
  /\ pc' = "failed"
  /\ UNCHANGED <<req, splitting, args, fileset, subscription, masks, jobs_out,
                 job_id, written, dpc, indices, t_in, t_out>>
  /\ UNCHANGED schedVars
  /\ UNCHANGED <<psets_isdir, archive>>

\* the members of the archive: each is [arcname, source]
TarMembers == <<[arcname |-> "request.json", source |-> "--request"],
                [arcname |-> "PSets", source |-> "--psets"]>>

\* write_jobs_to_output_dir writing the archive whenever --psets is given
TarballWanted_AnyPath(psets_given, isdir) == psets_given

\* line 304: psets_path is not None and os.path.isdir(psets_path)
TarballWanted(psets_given, isdir) == psets_given /\ isdir

\* lines 302-310
WriteTarball ==
  /\ pc = "writing"
  /\ Len(written) = Len(jobs_out)
  /\ IF TarballWanted(args.psets, psets_isdir)
     THEN /\ dir' = dir \cup {TarballName}
          /\ written' = Append(written, TarballName)
          /\ archive' = Some(TarMembers)
     ELSE UNCHANGED <<dir, written, archive>>
  /\ pc' = "done"
  /\ UNCHANGED <<req, splitting, args, err, fileset, subscription, masks,
                 jobs_out, job_id, dpc, indices, t_in, t_out, psets_isdir>>
  /\ UNCHANGED schedVars

\* ------------------------------------------------------ discover_job_files
\* os.listdir: the names of the directory in any order
Listings(names) ==
  {l \in [1..Cardinality(names) -> names] :
     \A i, j \in 1..Cardinality(names) : i # j => l[i] # l[j]}

RECURSIVE MatchedIndices(_)
\* lines 26-30
MatchedIndices(listing) ==
  IF listing = <<>> THEN <<>>
  ELSE LET m == PatternMatch(listing[1])
       IN (IF m # None THEN <<ParseInt(Val(m))>> ELSE <<>>)
            \o MatchedIndices(Tail(listing))

RECURSIVE Insert(_, _)
Insert(x, sortedSeq) ==
  IF sortedSeq = <<>> THEN <<x>>
  ELSE IF x < sortedSeq[1] THEN <<x>> \o sortedSeq
  ELSE <<sortedSeq[1]>> \o Insert(x, Tail(sortedSeq))

RECURSIVE sorted(_)
\* sorted(list of int)
sorted(xs) == IF xs = <<>> THEN <<>> ELSE Insert(xs[1], sorted(Tail(xs)))

\* discover_job_files returning the indices in listing order
discover_job_files_Unsorted(listing) ==
  LET found == MatchedIndices(listing)
  IN IF found = <<>>
     THEN [err |-> Raise("SystemExit", "no job*.json files found"), indices |-> <<>>]
     ELSE [err |-> NoError, indices |-> found]

\* discover_job_files returning an empty list when nothing matches
discover_job_files_EmptyOk(listing) ==
  [err |-> NoError, indices |-> sorted(MatchedIndices(listing))]

\* lines 20-38; the result is [err, indices]
discover_job_files(listing) ==
  LET found == MatchedIndices(listing)
  IN IF found = <<>>
     THEN [err |-> Raise("SystemExit", "no job*.json files found"), indices |-> <<>>]
     ELSE [err |-> NoError, indices |-> sorted(found)]

\* create_stepchain_dag.main line 213, run once the splitter has ended
Discover ==
  /\ pc \in {"done", "failed"}
  /\ dpc = "idle"
  /\ \E listing \in Listings(dir) :
       LET d == discover_job_files(listing)
       IN /\ indices' = d.indices
          /\ derr' = d.err
          /\ dpc' = IF d.err = NoError THEN "discovered" ELSE "failed"
  /\ UNCHANGED splitterVars
  /\ UNCHANGED <<t_in, t_out, envVars, hookVars, jdlVars>>
  /\ UNCHANGED <<dsites, dag_file, submit_file, post_copy>>

\* ----------------------------------------------------- check_request_psets
\* lines 41-47: the error raised, or NoError
check_request_psets(names) ==
  IF TarballName \notin names
  THEN Raise("SystemExit", "request_psets.tar.gz not found")
  ELSE NoError

\* create_stepchain_dag.main line 214
CheckRequestPsets ==
  /\ dpc = "discovered"
  /\ LET e == check_request_psets(dir)
     IN /\ derr' = e
        /\ dpc' = IF e = NoError THEN "checked" ELSE "failed"
  /\ UNCHANGED splitterVars
  /\ UNCHANGED <<indices, t_in, t_out, envVars, hookVars, jdlVars>>
  /\ UNCHANGED <<dsites, dag_file, submit_file, post_copy>>

\* ------------------------------------------------------------ read_sitelist
\* A line of the site list is a sequence of tokens: a token is one
\* whitespace character or a run of other characters that no code takes apart.
Whitespace == {" ", "\n"}

RECURSIVE LStrip(_)
LStrip(line) ==
  IF line # <<>> /\ line[1] \in Whitespace THEN LStrip(Tail(line)) ELSE line

RECURSIVE RStrip(_)
RStrip(line) ==
  IF line # <<>> /\ line[Len(line)] \in Whitespace
  THEN RStrip(SubSeq(line, 1, Len(line) - 1))
  ELSE line

\* line.strip()
Strip(line) == Concat(RStrip(LStrip(line)))

RECURSIVE StrippedLines(_)
\* [line.strip() for line in f if line.strip()]
StrippedLines(lines) ==
  IF lines = <<>> THEN <<>>
  ELSE (IF Strip(lines[1]) # "" THEN <<Strip(lines[1])>> ELSE <<>>)
         \o StrippedLines(Tail(lines))

RECURSIVE Join(_, _)
\* sep.join(strs)
Join(sep, strs) ==
  IF strs = <<>> THEN ""
  ELSE IF Len(strs) = 1 THEN strs[1]
  ELSE strs[1] \o sep \o Join(sep, Tail(strs))

\* read_sitelist without the check for an empty list
read_sitelist_NoEmptyCheck(file) ==
  IF file = None
  THEN [err |-> Raise("SystemExit", "sitelist file not found"), sites_str |-> None]
  ELSE [err |-> NoError, sites_str |-> Some(Join(", ", StrippedLines(Val(file))))]

\* create_stepchain_dag lines 50-61; the result is [err, sites_str]
read_sitelist(file) ==
  IF file = None
  THEN [err |-> Raise("SystemExit", "sitelist file not found"), sites_str |-> None]
  ELSE LET sites == StrippedLines(Val(file))
       IN IF sites = <<>>
          THEN [err |-> Raise("SystemExit", "sitelist file is empty"),
                sites_str |-> None]
          ELSE [err |-> NoError, sites_str |-> Some(Join(", ", sites))]

\* create_stepchain_dag.main line 215
ReadSitelist ==
  /\ dpc = "checked"
  /\ LET r == read_sitelist(sitelist)
     IN /\ derr' = r.err
        /\ dsites' = r.sites_str
        /\ dpc' = IF r.err = NoError THEN "sites" ELSE "failed"
  /\ UNCHANGED splitterVars
  /\ UNCHANGED <<indices, t_in, t_out, envVars, hookVars, jdlVars>>
  /\ UNCHANGED <<dag_file, submit_file, post_copy>>

\* ----------------------------------------------------------- write_dag_file
\* A line of the DAG file is the sequence of its space-separated words; the
\* empty line is the empty sequence.
dag_retries == 2

post_defer_delay == 21600

max_retries == 3

\* os.path.basename of the default --output-submit
submit_file_name == "job.submit"

post_script_name == "postjob.py"

\* --event-splitter-dir, --proxy and the default --executable
event_splitter_dir == "event_splitter_out"

proxy_path == "/tmp/x509up"

executable == "run.sh"

\* f"Job{idx}"
NodeName(idx) == "Job" \o Str(idx)

JobLine(idx, submit) == <<"JOB", NodeName(idx), submit>>

VarsLine(idx) == <<"VARS", NodeName(idx), "JOB_ID=\"" \o Str(idx) \o "\"">>

RetryLine(idx, retries) == <<"RETRY", NodeName(idx), Str(retries), "UNLESS-EXIT", "1">>

ScriptLine(idx, delay, script) ==
  <<"SCRIPT", "DEFER", "1", Str(delay), "POST", NodeName(idx), script, "$JOB">>

\* write_dag_file with one loop that writes the four lines of a node together
write_dag_file_PerNode(job_indices, submit, script, retries, delay) ==
  LET RECURSIVE nodes(_)
      nodes(i) ==
        IF i > Len(job_indices) THEN <<>>
        ELSE <<JobLine(job_indices[i], submit), VarsLine(job_indices[i]),
               RetryLine(job_indices[i], retries),
               ScriptLine(job_indices[i], delay, script)>> \o nodes(i + 1)
  IN << <<"#", "DAG", "generated", "from", "event_splitter", "output">>, <<>> >>
       \o nodes(1)

\* lines 64-93: the lines of the file
write_dag_file(job_indices, submit, script, retries, delay) ==
  << <<"#", "DAG", "generated", "from", "event_splitter", "output">>, <<>> >>
    \o [i \in 1..Len(job_indices) |-> JobLine(job_indices[i], submit)]
    \o << <<>> >>
    \o [i \in 1..Len(job_indices) |-> VarsLine(job_indices[i])]
    \o << <<>> >>
    \o [i \in 1..Len(job_indices) |-> RetryLine(job_indices[i], retries)]
    \o << <<>> >>
    \o [i \in 1..Len(job_indices) |-> ScriptLine(job_indices[i], delay, script)]

\* create_stepchain_dag.main lines 220-226
WriteDag ==
  /\ dpc = "sites"
  /\ dag_file' = Some(write_dag_file(indices, submit_file_name, post_script_name,
                                     dag_retries, post_defer_delay))
  /\ dpc' = "dag_written"
  /\ UNCHANGED splitterVars
  /\ UNCHANGED <<indices, t_in, t_out, envVars, hookVars, jdlVars>>
  /\ UNCHANGED <<derr, dsites, submit_file, post_copy>>

\* lines 145-157 and main lines 227-228
CopyPostScript ==
  /\ dpc = "dag_written"
  /\ post_copy' = post_src
  /\ dpc' = "copied"
  /\ UNCHANGED splitterVars
  /\ UNCHANGED <<indices, t_in, t_out, envVars, hookVars, jdlVars>>
  /\ UNCHANGED <<derr, dsites, dag_file, submit_file>>

\* -------------------------------------------------------- write_submit_file
\* A submit description is the record of its settings; every value is the
\* text right of the "=".  An entry of transfer_input_files is
\* [prefix, macro, suffix]: prefix $(macro) suffix, or prefix alone.
Plain(path) == [prefix |-> path, macro |-> "", suffix |-> ""]

\* line 121 and create_stepchain_jdl line 131
TransferInputFiles(splitter_dir, macro) ==
  <<Plain("execute_stepchain.sh"), Plain("submit_env.sh"), Plain("stage_out.py"),
    Plain("WMCore.zip"),
    [prefix |-> splitter_dir \o "/job", macro |-> macro, suffix |-> ".json"],
    Plain(splitter_dir \o "/request_psets.tar.gz")>>

\* lines 106-109 and create_stepchain_jdl lines 114-117
retry_requirements ==
  "( (LastRemoteHost =?= undefined) || (TARGET.Machine =!= split(LastRemoteHost, \"@\")[1]) )"

\* lines 96-142: the settings of the file
write_submit_file(splitter_dir, proxy, sites_str, exe, retries) ==
  [Executable |-> exe,
   transfer_input_files |-> TransferInputFiles(splitter_dir, "JOB_ID"),
   x509userproxy |-> proxy,
   DESIRED_Sites |-> "\"" \o sites_str \o "\"",
   request_cpus |-> "1",
   request_memory |-> "1000",
   MaxWallTimeMins |-> "180",
   REQUIRED_OS |-> "\"rhel7\"",
   on_exit_remove |-> "(ExitBySignal == False) && (ExitCode == 0)",
   max_retries |-> Str(retries),
   requirements |-> retry_requirements]

\* create_stepchain_dag.main lines 230-237
WriteSubmit ==
  /\ dpc = "copied"
  /\ submit_file' = Some(write_submit_file(event_splitter_dir, proxy_path,
                                           Val(dsites), executable, max_retries))
  /\ dpc' = "done"
  /\ UNCHANGED splitterVars
  /\ UNCHANGED <<indices, t_in, t_out, envVars, hookVars, jdlVars>>
  /\ UNCHANGED <<derr, dsites, dag_file, post_copy>>

\* ------------------------------------------------ scram_arch_to_required_os
DEFAULT_REQUIRED_OS == "rhel7"

\* lines 27-37
ARCH_TO_OS ==
  [slc5 |-> {"rhel6"}, slc6 |-> {"rhel6"}, slc7 |-> {"rhel7"}, el8 |-> {"rhel8"},
   cc8 |-> {"rhel8"}, cs8 |-> {"rhel8"}, alma8 |-> {"rhel8"}, el9 |-> {"rhel9"},
   cs9 |-> {"rhel9"}]

\* An architecture tag is a sequence of one-character strings.
\* arch.split("_")[0]: the characters before the first underscore
RECURSIVE Prefix(_)
Prefix(arch) ==
  IF arch = <<>> \/ arch[1] = "_" THEN <<>> ELSE <<arch[1]>> \o Prefix(Tail(arch))

\* ARCH_TO_OS.get(prefix, [])
ArchGet(prefix) ==
  IF Concat(prefix) \in DOMAIN ARCH_TO_OS THEN ARCH_TO_OS[Concat(prefix)] ELSE {}

\* the values of ARCH_TO_OS in the order sorted() gives a list of str
OsSorted == <<"rhel6", "rhel7", "rhel8", "rhel9">>

\* sorted(required)
SortedOs(required) == SelectSeq(OsSorted, LAMBDA os : os \in required)

\* A ScramArch value is [kind, archs]: a str is kind "str" with one tag, a
\* list is kind "list" with its tags, anything else is kind "other".
\* truth value of a ScramArch value; a value of kind "other" is taken non-zero
ArchTruthy(a) ==
  /\ a # None
  /\ CASE Val(a).kind = "str" -> Val(a).archs[1] # <<>>
       [] Val(a).kind = "list" -> Val(a).archs # <<>>
       [] OTHER -> TRUE

\* scram_arch_to_required_os answering the default for an unknown prefix
scram_arch_to_required_os_Default(scram_arch) ==
  IF ~ArchTruthy(scram_arch) THEN "any"
  ELSE IF Val(scram_arch).kind = "other" THEN "any"
  ELSE LET archs == Val(scram_arch).archs
           required == UNION {ArchGet(Prefix(archs[i])) : i \in 1..Len(archs)}
       IN IF required # {} THEN Join(",", SortedOs(required))
          ELSE DEFAULT_REQUIRED_OS

\* lines 40-52
scram_arch_to_required_os(scram_arch) ==
  IF ~ArchTruthy(scram_arch) THEN "any"
  ELSE IF Val(scram_arch).kind = "other" THEN "any"
  ELSE LET archs == Val(scram_arch).archs
           required == UNION {ArchGet(Prefix(archs[i])) : i \in 1..Len(archs)}
       IN IF required # {} THEN Join(",", SortedOs(required)) ELSE "any"

\* ------------------------------------------------------------- read_request
\* truth value of an optional number: None and 0 are false
TruthyNum(o) == o # None /\ Val(o) # 0

\* line 67: int(math.ceil(float(a) / float(b)))
num_jobs_of(request_num_events, events_per_job) ==
  CeilDiv(request_num_events, events_per_job)

\* walltime_mins_of without the 50% margin
walltime_mins_of_NoMargin(time_per_event, events_per_job) ==
  CeilDiv(time_per_event * events_per_job, 60)

\* line 71: int(math.ceil(float(t) * float(e) * 1.5 / 60)); 1.5 is 3/2, and
\* the doubles of this product and quotient round to the same integer
walltime_mins_of(time_per_event, events_per_job) ==
  CeilDiv(time_per_event * events_per_job * 3, 2 * 60)

\* lines 61-82, for the request r and its keys x that only this script reads
read_request(r, x) ==
  LET step1 == "Step1" \notin r.missing
      request_num_events == IF step1 THEN Some(r.RequestNumEvents) ELSE None
      events_per_job == IF step1 THEN x.EventsPerJob ELSE None
      time_per_event == IF "TimePerEvent" \in r.missing THEN None
                        ELSE Some(x.TimePerEvent)
      num_jobs == IF /\ x.TotalEstimatedJobs = None
                     /\ TruthyNum(request_num_events)
                     /\ TruthyNum(events_per_job)
                  THEN Some(num_jobs_of(Val(request_num_events), Val(events_per_job)))
                  ELSE x.TotalEstimatedJobs
      walltime_mins == IF time_per_event # None /\ TruthyNum(events_per_job)
                       THEN Some(walltime_mins_of(Val(time_per_event),
                                                  Val(events_per_job)))
                       ELSE None
      required_os == IF ArchTruthy(x.ScramArch)
                     THEN scram_arch_to_required_os(x.ScramArch)
                     ELSE DEFAULT_REQUIRED_OS
  IN [request_cpus |-> GetOr(x.Multicore, 1),
      request_memory |-> IF "Memory" \in r.missing THEN 1000 ELSE x.Memory,
      num_jobs |-> num_jobs,
      walltime_mins |-> walltime_mins,
      batch_name |-> x.RequestName,
      required_os |-> required_os]

\* create_stepchain_jdl.main lines 212-216: the error raised, or NoError
CheckNumJobs_NoSignCheck(num_jobs) ==
  IF num_jobs = None
  THEN Raise("SystemExit", "request.json must have TotalEstimatedJobs or Step1.RequestNumEvents/EventsPerJob")
  ELSE NoError

CheckNumJobs(num_jobs) ==
  IF num_jobs = None
  THEN Raise("SystemExit", "request.json must have TotalEstimatedJobs or Step1.RequestNumEvents/EventsPerJob")
  ELSE IF Val(num_jobs) <= 0
  THEN Raise("SystemExit", "num_jobs must be positive")
  ELSE NoError

\* create_stepchain_jdl.main lines 208-222; the request file is taken to exist
JdlReadRequest ==
  /\ jpc = "start"
  /\ LET p == read_request(req, extra)
         e == CheckNumJobs(p.num_jobs)
     IN /\ req_params' = Some(p)
        /\ jerr' = e
        /\ jpc' = IF e = NoError THEN "params" ELSE "failed"
  /\ UNCHANGED splitterVars
  /\ UNCHANGED <<dpc, indices, t_in, t_out, envVars, hookVars, dagVars>>
  /\ UNCHANGED <<jsites, jdl_file>>

\* create_stepchain_jdl lines 85-96; the result is [err, sites_str]
jdl_read_sitelist(file) ==
  IF file = None
  THEN [err |-> Raise("SystemExit", "sitelist file not found"), sites_str |-> None]
  ELSE LET sites == StrippedLines(Val(file))
       IN IF sites = <<>>
          THEN [err |-> Raise("SystemExit", "sitelist file is empty"),
                sites_str |-> None]
          ELSE [err |-> NoError, sites_str |-> Some(Join(", ", sites))]

\* create_stepchain_jdl.main line 224
JdlReadSitelist ==
  /\ jpc = "params"
  /\ LET r == jdl_read_sitelist(sitelist)
     IN /\ jerr' = r.err
        /\ jsites' = r.sites_str
        /\ jpc' = IF r.err = NoError THEN "sites" ELSE "failed"
  /\ UNCHANGED splitterVars
  /\ UNCHANGED <<dpc, indices, t_in, t_out, envVars, hookVars, dagVars>>
  /\ UNCHANGED <<req_params, jdl_file>>

\* ----------------------------------------------------------- write_jdl_file
\* f"{v}" for an optional int
Fmt(o) == IF o = None THEN "None" ELSE Str(Val(o))

\* lines 99-154: the settings of the file
write_jdl_file(splitter_dir, proxy, sites_str, exe, retries, num_jobs, batch_name, request_cpus, request_memory, walltime_mins, required_os) ==
  [Executable |-> exe,
   transfer_input_files |-> TransferInputFiles(splitter_dir, "Index"),
   JobBatchName |-> IF Truthy(batch_name) THEN Some("\"" \o Val(batch_name) \o "\"")
                    ELSE None,
   x509userproxy |-> proxy,
   DESIRED_Sites |-> "\"" \o sites_str \o "\"",
   request_cpus |-> Str(request_cpus),
   request_memory |-> Str(request_memory),
   MaxWallTimeMins |-> Fmt(walltime_mins),
   REQUIRED_OS |-> "\"" \o required_os \o "\"",
   on_exit_remove |-> "(ExitBySignal == False) && (ExitCode == 0)",
   max_retries |-> Str(retries),
   requirements |-> retry_requirements,
   Queue |-> [var |-> "Index", first |-> 1, last |-> num_jobs]]

\* create_stepchain_jdl.main lines 226-239
WriteJdl ==
  /\ jpc = "sites"
  /\ LET p == Val(req_params)
     IN jdl_file' = Some(write_jdl_file(event_splitter_dir, proxy_path, Val(jsites),
                                        executable, max_retries, Val(p.num_jobs),
                                        p.batch_name, p.request_cpus,
                                        p.request_memory, p.walltime_mins,
                                        p.required_os))
  /\ jpc' = "done"
  /\ UNCHANGED splitterVars
  /\ UNCHANGED <<dpc, indices, t_in, t_out, envVars, hookVars, dagVars>>
  /\ UNCHANGED <<jerr, req_params, jsites>>

\* -------------------------------------- a direct build_job_tweak_json call
TweakCall ==
  /\ pc = "tweak"
  /\ t_out' = Some(build_job_tweak_json(t_in.mask, t_in.lhe_input,
                                        t_in.chain_input_file,
                                        t_in.set_output_filename,
                                        t_in.output_module_name))
  /\ pc' = "tweaked"
  /\ UNCHANGED <<req, splitting, args, err, fileset, subscription, masks,
                 jobs_out, job_id, dir, written, dpc, indices, t_in>>
  /\ UNCHANGED schedVars
  /\ UNCHANGED <<psets_isdir, archive>>

\* ------------------------------------------------------------------ inputs
\* request documents: M missing-key sets, T RequestNumEvents, L EventsPerLumi,
\* F optional FirstEvent / FirstLumi / RunNumber triples, C StepChain,
\* I per-step InputFromOutputModule
Requests(M, T, L, F, C, I) ==
  {[missing |-> m, RequestNumEvents |-> t, EventsPerLumi |-> l,
    FirstEvent |-> f[1], FirstLumi |-> f[2], RunNumber |-> f[3],
    StepChain |-> c, InputFromOutputModule |-> i] :
     m \in M, t \in T, l \in L, f \in F, c \in C, i \in I}

\* splitting documents: P whether a Production entry exists, A splitAlgo,
\* J events_per_job, L events_per_lumi, H lheInputFiles
Splittings(P, A, J, L, H) ==
  [hasProduction : P, splitAlgo : A, events_per_job : J, events_per_lumi : L,
   lheInputFiles : H]

Arguments(O, P) == [output_dir : O, psets : P]

NoModules == [k \in 2..MaxSteps |-> None]

AllFirsts == {None, Some(2)} \X {None, Some(3)} \X {None, Some(2)}

\* which keys the documents lack: at most one, and two combinations
Faults ==
  {<<{}, TRUE>>, <<{}, FALSE>>, <<{"PrepID"}, FALSE>>, <<{"Step1", "Memory"}, TRUE>>}
    \cup {<<{k}, TRUE>> : k \in ReqKeys}

\* files an earlier run or the user left in the output directory
InitialDirs ==
  {{}, {JobFileName(9)}, {<<"j", "o", "b", "0", "1", ".", "j", "s", "o", "n">>},
   {JobFileName(0)}, {TarballName}, {<<"j", "o", "b", "s", ".", "j", "s", "o", "n">>}}

\* no artifact exists and neither generator has run
InitGenerators ==
  /\ derr = NoError
  /\ dsites = None
  /\ dag_file = None
  /\ submit_file = None
  /\ post_copy = FALSE
  /\ jerr = NoError
  /\ req_params = None
  /\ jsites = None
  /\ jdl_file = None

\* neither stage_out nor postjob is run
NoHooks ==
  /\ stage_req = None
  /\ work_dir = <<>>
  /\ file_list = None
  /\ cwd = {}
  /\ exits = <<>>

\* create_stepchain_jdl is not run and create_stepchain_dag stops after discovery
NoSchedule ==
  /\ NoHooks
  /\ extra = None
  /\ sitelist = None
  /\ post_src = FALSE
  /\ jpc = "off"

\* the members of an archive an earlier run left
StaleArchive == <<[arcname |-> "request.json", source |-> "an earlier --request"],
                  [arcname |-> "PSets", source |-> "an earlier --psets"]>>

InitProcess ==
  /\ archive = IF TarballName \in dir THEN Some(StaleArchive) ELSE None
  /\ pc = "start"
  /\ err = NoError
  /\ fileset = None
  /\ subscription = None
  /\ masks = <<>>
  /\ jobs_out = <<>>
  /\ job_id = 0
  /\ written = <<>>
  /\ dpc = "idle"
  /\ indices = <<>>
  /\ t_in = None
  /\ t_out = None
  /\ InitGenerators

\* every request and splitting document, well-formed or not, a fresh directory
Init ==
  /\ req \in Requests({f[1] : f \in Faults}, -1..MaxEvents, 0..MaxEventsPerLumi,
                      AllFirsts, {2}, {NoModules})
  /\ splitting \in Splittings(BOOLEAN, {"EventBased", "FileBased"},
                              -1..MaxEventsPerJob, 0..MaxEventsPerLumi, {FALSE})
  /\ <<req.missing, splitting.hasProduction>> \in Faults
  /\ args \in Arguments(BOOLEAN, {FALSE})
  /\ dir = {}
  /\ InitProcess
  /\ NoSchedule
  /\ psets_isdir = TRUE

Next ==
  \/ ReadAndValidate
  \/ BuildFileset
  \/ Performance
  \/ MakeFactory
  \/ Split
  \/ BuildJob
  \/ Main
  \/ WriteJob
  \/ WriteTarball
  \/ Discover

Spec == Init /\ [][Next]_vars

ModuleNames == {None, Some("RAWoutput"), Some("AODoutput")}

\* well-formed documents, every step chain
InitChain ==
  /\ req \in Requests({{}}, 1..MaxEvents, {1},
                      {<<None, None, None>>, <<Some(2), Some(3), Some(2)>>},
                      1..MaxSteps, [2..MaxSteps -> ModuleNames])
  /\ splitting \in Splittings({TRUE}, {"EventBased"}, 1..MaxEventsPerJob, {1}, BOOLEAN)
  /\ args \in Arguments(BOOLEAN, {TRUE})
  /\ dir = {}
  /\ InitProcess
  /\ NoSchedule
  /\ psets_isdir = TRUE

SpecChain == InitChain /\ [][Next]_vars

\* well-formed documents, every output directory
InitDir ==
  /\ req \in Requests({{}}, 1..MaxEvents, {1}, {<<None, None, None>>}, {1},
                      {NoModules})
  /\ splitting \in Splittings({TRUE}, {"EventBased"}, 1..MaxEventsPerJob, {1}, {FALSE})
  /\ args \in Arguments(BOOLEAN, BOOLEAN)
  /\ dir \in InitialDirs
  /\ InitProcess
  /\ NoSchedule
  /\ psets_isdir = TRUE

SpecDir == InitDir /\ [][Next]_vars

\* masks as build_job_tweak_json may receive them
TweakMasks ==
  [inclusivemask : {TRUE},
   FirstEvent : {None, Some(1), Some(3)},
   LastEvent : {None, Some(3), Some(5)},
   FirstLumi : {None, Some(1), Some(4)},
   LastLumi : {None},
   FirstRun : {None, Some(1), Some(2)},
   LastRun : {None},
   runAndLumis : {None, Some(<<>>),
                  Some(<< <<1, << <<1, 2>> >> >> >>),
                  Some(<< <<1, << <<1, 2>>, <<4, 4>> >> >> >>),
                  Some(<< <<1, << <<1, 1>> >> >>, <<2, << <<3, 5>> >> >> >>),
                  Some(<< <<1, <<>> >> >>),
                  Some(<< <<1, << <<1, 2, 3>> >> >> >>)}]

TweakInputs ==
  {[mask |-> m, lhe_input |-> h, chain_input_file |-> c,
    set_output_filename |-> o[1], output_module_name |-> o[2]] :
     m \in TweakMasks, h \in BOOLEAN,
     c \in {None, Some("file:../step1/RAWSIMoutput.root")},
     o \in {<<None, None>>, <<Some("file:RAWSIMoutput.root"), Some("RAWSIMoutput")>>}}

InitTweak ==
  /\ t_in \in TweakInputs
  /\ t_out = None
  /\ pc = "tweak"
  /\ req = None
  /\ splitting = None
  /\ args = None
  /\ err = NoError
  /\ fileset = None
  /\ subscription = None
  /\ masks = <<>>
  /\ jobs_out = <<>>
  /\ job_id = 0
  /\ dir = {}
  /\ written = <<>>
  /\ dpc = "idle"
  /\ indices = <<>>
  /\ InitGenerators
  /\ NoSchedule
  /\ psets_isdir = TRUE
  /\ archive = None

NextTweak == Next \/ TweakCall

\* direct calls of build_job_tweak_json next to the calls of the splitter
SpecTweak == (InitTweak \/ InitChain) /\ [][NextTweak]_vars

\* well-formed documents, every output directory, a --psets path that may
\* be no directory
InitArchive ==
  /\ req \in Requests({{}}, 1..MaxEvents, {1}, {<<None, None, None>>}, {1},
                      {NoModules})
  /\ splitting \in Splittings({TRUE}, {"EventBased"}, 1..MaxEventsPerJob, {1}, {FALSE})
  /\ args \in Arguments(BOOLEAN, BOOLEAN)
  /\ dir \in InitialDirs
  /\ InitProcess
  /\ NoSchedule
  /\ psets_isdir \in BOOLEAN

SpecArchive == InitArchive /\ [][Next]_vars

NextWrite == Next \/ WriteJobFails

\* well-formed documents on a filesystem that may refuse a write
SpecWrite == InitDir /\ [][NextWrite]_vars

\* ------------------------------------------------- the schedule generators
\* site list files: missing, empty, blank lines only, one site, two sites
SiteLists ==
  {None, Some(<<>>), Some(<< <<"\n">>, <<" ", "\n">> >>),
   Some(<< <<"T1_US_FNAL", "\n">> >>),
   Some(<< <<" ", "T2_CH_CERN", " ", "\n">>, <<"\n">>, <<"T1_US_FNAL">> >>)}

\* "el8_amd64_gcc11"
Arch_el8 ==
  <<"e", "l", "8", "_", "a", "m", "d", "6", "4", "_", "g", "c", "c", "1", "1">>

\* "slc7_amd64_gcc700"
Arch_slc7 ==
  <<"s", "l", "c", "7", "_", "a", "m", "d", "6", "4", "_", "g", "c", "c", "7",
    "0", "0">>

\* "el9": a tag without an underscore
Arch_el9 == <<"e", "l", "9">>

\* "osx_arm64": a prefix the table lacks
Arch_osx == <<"o", "s", "x", "_", "a", "r", "m", "6", "4">>

\* "el_8": a prefix of a known prefix
Arch_el == <<"e", "l", "_", "8">>

StrArch(tag) == Some([kind |-> "str", archs |-> <<tag>>])

ListArch(tags) == Some([kind |-> "list", archs |-> tags])

ScramArchs ==
  {None, StrArch(<<>>), ListArch(<<>>), Some([kind |-> "other", archs |-> <<>>]),
   StrArch(Arch_el8), StrArch(Arch_slc7), StrArch(Arch_el9), StrArch(Arch_osx),
   StrArch(Arch_el), ListArch(<<Arch_el8, Arch_slc7>>),
   ListArch(<<Arch_osx, Arch_el9>>), ListArch(<<Arch_osx>>)}

\* the keys of the request only create_stepchain_jdl reads: N TotalEstimatedJobs,
\* J Step1.EventsPerJob, T TimePerEvent, C <<Multicore, Memory, RequestName>>,
\* A ScramArch
Extras(N, J, T, C, A) ==
  {[TotalEstimatedJobs |-> n, EventsPerJob |-> j, TimePerEvent |-> t,
    Multicore |-> c[1], Memory |-> c[2], RequestName |-> c[3], ScramArch |-> a] :
     n \in N, j \in J, t \in T, c \in C, a \in A}

\* a request whose derived resources are those create_stepchain_dag writes,
\* a request with every key set, and a request without a job count
SchedExtras ==
  Extras({None}, {Some(2)}, {3600}, {<<None, 1000, None>>},
         {None, StrArch(Arch_slc7)})
    \cup Extras({Some(2)}, {None, Some(1)}, {40},
                {<<Some(4), 2000, Some("req1")>>}, {StrArch(Arch_el8)})

SchedDirs ==
  {{}, {JobFileName(9)}, {<<"j", "o", "b", "0", "1", ".", "j", "s", "o", "n">>},
   {<<"j", "o", "b", "s", ".", "j", "s", "o", "n">>}}

\* well-formed documents, both generators, every site list and directory
InitSched ==
  /\ req \in Requests({{}}, 1..MaxEvents, {1}, {<<None, None, None>>}, {1},
                      {NoModules})
  /\ splitting \in Splittings({TRUE}, {"EventBased"}, 1..MaxEventsPerJob, {1}, {FALSE})
  /\ args \in Arguments(BOOLEAN, BOOLEAN)
  /\ dir \in SchedDirs
  /\ InitProcess
  /\ extra \in SchedExtras
  /\ sitelist \in SiteLists
  /\ post_src \in BOOLEAN
  /\ jpc = "start"
  /\ psets_isdir = TRUE
  /\ NoHooks

NextSched ==
  \/ Next
  \/ CheckRequestPsets
  \/ ReadSitelist
  \/ WriteDag
  \/ CopyPostScript
  \/ WriteSubmit
  \/ JdlReadRequest
  \/ JdlReadSitelist
  \/ WriteJdl

\* the splitter, then create_stepchain_dag, and create_stepchain_jdl at any time
SpecSched == InitSched /\ [][NextSched]_vars

EventsPerJobs == {None} \cup {Some(n) : n \in (-1..MaxEventsPerJob) \cup {100}}

\* create_stepchain_jdl alone on every request, the splitter not run
InitJdl ==
  /\ req \in Requests({{}, {"Step1"}, {"TimePerEvent"}, {"Memory"}}, -1..MaxEvents,
                      {1}, {<<None, None, None>>}, {1}, {NoModules})
  /\ extra \in Extras({None, Some(-1), Some(0), Some(2)}, EventsPerJobs, {1, 5, 40},
                      {<<None, 2000, None>>, <<Some(4), 4000, Some("req1")>>},
                      ScramArchs)
  /\ sitelist \in {Some(<<>>), Some(<< <<"T1_US_FNAL", "\n">> >>)}
  /\ post_src = FALSE
  /\ jpc = "start"
  /\ splitting = None
  /\ args = None
  /\ pc = "off"
  /\ err = NoError
  /\ fileset = None
  /\ subscription = None
  /\ masks = <<>>
  /\ jobs_out = <<>>
  /\ job_id = 0
  /\ dir = {}
  /\ written = <<>>
  /\ dpc = "idle"
  /\ indices = <<>>
  /\ t_in = None
  /\ t_out = None
  /\ InitGenerators
  /\ psets_isdir = TRUE
  /\ archive = None
  /\ NoHooks

NextJdl ==
  \/ JdlReadRequest
  \/ JdlReadSitelist
  \/ WriteJdl

SpecJdl == InitJdl /\ [][NextJdl]_vars

\* ------------------------------------------- discover_files_from_request
MaxStageSteps == 2

RootSuffix == <<".", "r", "o", "o", "t">>

RAWSIMoutput == <<"R", "A", "W", "S", "I", "M", "o", "u", "t", "p", "u", "t">>

AODSIMoutput == <<"A", "O", "D", "S", "I", "M", "o", "u", "t", "p", "u", "t">>

\* s.endswith(suffix)
EndsWith(s, suffix) ==
  Len(s) >= Len(suffix) /\ SubSeq(s, Len(s) - Len(suffix) + 1, Len(s)) = suffix

RECURSIVE Remove(_, _)
\* s.replace(old, "") for a non-empty old
Remove(s, old) ==
  IF s = <<>> THEN <<>>
  ELSE IF Len(s) >= Len(old) /\ SubSeq(s, 1, Len(old)) = old
       THEN Remove(SubSeq(s, Len(old) + 1, Len(s)), old)
       ELSE <<s[1]>> \o Remove(Tail(s), old)

\* "step%d" % n
StepDirName(n) == "step" \o Str(n)

\* the loop body without the KeepOutput test of lines 38-39
StepFiles_KeepAll(r, wd, n, num_steps) ==
  LET Get(k) == IF k \in DOMAIN r.Steps /\ r.Steps[k] # None
                THEN Val(r.Steps[k])
                ELSE [KeepOutput |-> None, InputFromOutputModule |-> None,
                      AcquisitionEra |-> None, PrimaryDataset |-> None,
                      ProcessingString |-> None]
      step == Get(n)
      isdir == n \in DOMAIN wd /\ wd[n] # None
      roots == {i \in 1..Len(Val(wd[n])) : EndsWith(Val(wd[n])[i], RootSuffix)}
      f == Val(wd[n])[CHOOSE i \in roots : \A j \in roots : i <= j]
      out_module ==
        IF n < num_steps
        THEN Some(GetOr(Get(n + 1).InputFromOutputModule, RAWSIMoutput))
        ELSE IF isdir /\ roots # {} THEN Some(SubSeq(f, 1, Len(f) - 5)) ELSE None
      isfile == isdir /\ \E i \in 1..Len(Val(wd[n])) :
                           Val(wd[n])[i] = Val(out_module) \o RootSuffix
      output == <<"o", "u", "t", "p", "u", "t">>
      tier == IF EndsWith(Val(out_module), output)
              THEN Remove(Val(out_module), output)
              ELSE Val(out_module)
      lfn == GetOr(r.UnmergedLFNBase, "/store/unmerged") \o "/"
               \o GetOr(step.AcquisitionEra, "") \o "/"
               \o GetOr(step.PrimaryDataset, "") \o "/" \o Concat(tier) \o "/"
               \o GetOr(step.ProcessingString, "") \o "-v3/"
               \o Concat(Val(out_module)) \o ".root"
  IN IF out_module = None \/ out_module = Some(<<>>) THEN <<>>
     ELSE IF ~isfile THEN <<>>
     ELSE <<[lfn |-> lfn,
             local_path |-> <<StepDirName(n), Val(out_module) \o RootSuffix>>]>>

\* the loop body, lines 36-67: what step n appends to result.  r is the
\* request, with r.Steps[k] the entry "Step<k>" or None; wd[n] is the
\* listing of the directory of step n, or None when it is no directory; f is
\* the first entry that ends with ".root" (lines 47-50)
StepFiles(r, wd, n, num_steps) ==
  LET Get(k) == IF k \in DOMAIN r.Steps /\ r.Steps[k] # None
                THEN Val(r.Steps[k])
                ELSE [KeepOutput |-> None, InputFromOutputModule |-> None,
                      AcquisitionEra |-> None, PrimaryDataset |-> None,
                      ProcessingString |-> None]
      step == Get(n)
      isdir == n \in DOMAIN wd /\ wd[n] # None
      roots == {i \in 1..Len(Val(wd[n])) : EndsWith(Val(wd[n])[i], RootSuffix)}
      f == Val(wd[n])[CHOOSE i \in roots : \A j \in roots : i <= j]
      out_module ==
        IF n < num_steps
        THEN Some(GetOr(Get(n + 1).InputFromOutputModule, RAWSIMoutput))
        ELSE IF isdir /\ roots # {} THEN Some(SubSeq(f, 1, Len(f) - 5)) ELSE None
      isfile == isdir /\ \E i \in 1..Len(Val(wd[n])) :
                           Val(wd[n])[i] = Val(out_module) \o RootSuffix
      output == <<"o", "u", "t", "p", "u", "t">>
      tier == IF EndsWith(Val(out_module), output)
              THEN Remove(Val(out_module), output)
              ELSE Val(out_module)
      lfn == GetOr(r.UnmergedLFNBase, "/store/unmerged") \o "/"
               \o GetOr(step.AcquisitionEra, "") \o "/"
               \o GetOr(step.PrimaryDataset, "") \o "/" \o Concat(tier) \o "/"
               \o GetOr(step.ProcessingString, "") \o "-v3/"
               \o Concat(Val(out_module)) \o ".root"
  IN IF ~GetOr(step.KeepOutput, FALSE) THEN <<>>
     ELSE IF out_module = None \/ out_module = Some(<<>>) THEN <<>>
     ELSE IF ~isfile THEN <<>>
     ELSE <<[lfn |-> lfn,
             local_path |-> <<StepDirName(n), Val(out_module) \o RootSuffix>>]>>

RECURSIVE StageLoop(_, _, _, _)
\* for n in range(1, num_steps + 1), from n on
StageLoop(r, wd, n, num_steps) ==
  IF n > num_steps THEN <<>>
  ELSE StepFiles(r, wd, n, num_steps) \o StageLoop(r, wd, n + 1, num_steps)

discover_files_from_request(request, wd) ==
  IF request = None THEN <<>>
  ELSE StageLoop(Val(request), wd, 1, GetOr(Val(request).StepChain, 1))

\* stage_out.main, line 156
DiscoverFiles ==
  /\ file_list = None
  /\ file_list' = Some(discover_files_from_request(stage_req, work_dir))
  /\ UNCHANGED <<stage_req, work_dir, cwd, exits>>
  /\ UNCHANGED <<splitterVars, dpc, indices, t_in, t_out, envVars, dagVars, jdlVars>>

\* stage_out alone on every request and work directory
InitStage ==
  LET Keeps == {None, Some(TRUE), Some(FALSE)}
      Modules == {None, Some(AODSIMoutput)}
      StageSteps ==
        {None} \cup
        {Some([KeepOutput |-> k, InputFromOutputModule |-> m,
               AcquisitionEra |-> None, PrimaryDataset |-> None,
               ProcessingString |-> None]) : k \in Keeps, m \in Modules} \cup
        {Some([KeepOutput |-> Some(TRUE),
               InputFromOutputModule |-> Some(AODSIMoutput),
               AcquisitionEra |-> Some("Run3"), PrimaryDataset |-> Some("MinBias"),
               ProcessingString |-> Some("GEN")])}
      StepListings ==
        {None, Some(<<>>), Some(<<RAWSIMoutput \o RootSuffix>>),
         Some(<< <<"l", "o", "g">>, AODSIMoutput \o RootSuffix>>),
         Some(<<RootSuffix, RAWSIMoutput \o RootSuffix>>)}
      StageRequests ==
        {None} \cup
        {Some([StepChain |-> c, UnmergedLFNBase |-> None, Steps |-> s]) :
           c \in {None} \cup {Some(n) : n \in 0..MaxStageSteps},
           s \in [1..MaxStageSteps -> StageSteps]}
  IN /\ stage_req \in StageRequests
     /\ work_dir \in [1..MaxStageSteps -> StepListings]
     /\ file_list = None
     /\ cwd = {}
     /\ exits = <<>>
     /\ extra = None
     /\ sitelist = None
     /\ post_src = FALSE
     /\ jpc = "off"
     /\ req = None
     /\ splitting = None
     /\ args = None
     /\ pc = "off"
     /\ err = NoError
     /\ fileset = None
     /\ subscription = None
     /\ masks = <<>>
     /\ jobs_out = <<>>
     /\ job_id = 0
     /\ dir = {}
     /\ written = <<>>
     /\ dpc = "idle"
     /\ indices = <<>>
     /\ t_in = None
     /\ t_out = None
     /\ InitGenerators
     /\ psets_isdir = TRUE
     /\ archive = None

NextStage == DiscoverFiles

SpecStage == InitStage /\ [][NextStage]_vars

\* ---------------------------------------------------------------- postjob
MaxInvocations == 4

\* the state file of every node is the same file
StateFileName_Shared(job_name) == "postjob_state"

\* f"postjob_{job_name}_state", line 16
StateFileName(job_name) == "postjob_" \o job_name \o "_state"

\* one run of postjob.py with the arguments argv (None: no argument);
\* line 15: job_name is sys.argv[1], or "unknown" without argument
PostJob ==
  /\ Len(exits) < MaxInvocations
  /\ \E argv \in {None, Some(NodeName(1)), Some(NodeName(2))} :
       LET state_file == StateFileName(GetOr(argv, "unknown"))
       IN IF state_file \in cwd
          THEN /\ exits' = Append(exits, [argv |-> argv, code |-> 0])
               /\ cwd' = cwd
          ELSE /\ cwd' = cwd \cup {state_file}
               /\ exits' = Append(exits, [argv |-> argv, code |-> 1])
  /\ UNCHANGED <<stage_req, work_dir, file_list>>
  /\ UNCHANGED <<splitterVars, dpc, indices, t_in, t_out, envVars, dagVars, jdlVars>>

\* postjob alone in a working directory without state files
InitPost ==
  /\ cwd = {}
  /\ exits = <<>>
  /\ stage_req = None
  /\ work_dir = <<>>
  /\ file_list = None
  /\ extra = None
  /\ sitelist = None
  /\ post_src = FALSE
  /\ jpc = "off"
  /\ req = None
  /\ splitting = None
  /\ args = None
  /\ pc = "off"
  /\ err = NoError
  /\ fileset = None
  /\ subscription = None
  /\ masks = <<>>
  /\ jobs_out = <<>>
  /\ job_id = 0
  /\ dir = {}
  /\ written = <<>>
  /\ dpc = "idle"
  /\ indices = <<>>
  /\ t_in = None
  /\ t_out = None
  /\ InitGenerators
  /\ psets_isdir = TRUE
  /\ archive = None

NextPost == PostJob

SpecPost == InitPost /\ [][NextPost]_vars

\* ================================================================ properties
\* the job factory has returned masks
MasksProduced == pc \in {"flatten", "writing", "done"}

FE(i) == Val(masks[i].FirstEvent)

LE(i) == Val(masks[i].LastEvent)

\* the masks, in job order, partition [first, last] into CeilDiv(total, per_job)
\* contiguous ranges of at most per_job events
Partitions(first, last, count, per_job) ==
  /\ Len(masks) = count
  /\ FE(1) = first
  /\ \A i \in 2..Len(masks) : FE(i) = LE(i - 1) + 1
  /\ LE(Len(masks)) = last
  /\ \A i \in 1..Len(masks) : FE(i) <= LE(i) /\ LE(i) - FE(i) + 1 <= per_job

\* C1 as stated: whenever the splitter produces masks (totalEvents > 0,
\* eventsPerJob > 0), they partition [1, totalEvents] in job order and there are
\* ceil(totalEvents / eventsPerJob) of them.
C1_PartitionFromOne ==
  MasksProduced =>
    Partitions(1, req.RequestNumEvents,
               CeilDiv(req.RequestNumEvents, splitting.events_per_job),
               splitting.events_per_job)

\* C1 amended: whenever the splitter produces masks, they partition
\* [firstEvent, firstEvent + totalEvents - 1] in job order, firstEvent being the
\* request's FirstEvent (1 when absent), and there are
\* ceil(totalEvents / eventsPerJob) of them.
C1_PartitionFromFirstEvent ==
  MasksProduced =>
    Partitions(GetOr(req.FirstEvent, 1),
               GetOr(req.FirstEvent, 1) + req.RequestNumEvents - 1,
               CeilDiv(req.RequestNumEvents, splitting.events_per_job),
               splitting.events_per_job)

C1_Witness ==
  /\ MasksProduced
  /\ req.RequestNumEvents = 3
  /\ splitting.events_per_job = 2
  /\ req.FirstEvent = Some(2)
  /\ Len(masks) = 2
  /\ LE(2) = 4

MaskKeys == {K_firstLumi, K_firstEvent, K_firstRun, K_lumisToProcess}

\* the tweak of step k of the i-th job descriptor
TweakOf(i, k) == jobs_out[i].tweaks[Str(k)]

\* C2: in every job's tweak chain, the override set of every step k > 1 holds
\* none of the mask fields (firstLuminosityBlock, firstEvent, firstRun,
\* lumisToProcess) and no finite maxEvents.
C2_OnlyStep1Masked ==
  \A i \in 1..Len(jobs_out) : \A k \in 2..NumSteps(req) :
    /\ (DOMAIN TweakOf(i, k)) \cap MaskKeys = {}
    /\ K_maxEvents \in DOMAIN TweakOf(i, k) =>
         TweakOf(i, k)[K_maxEvents] = MaxEventsPSet(-1)

KnownModules == {"RAWSIMoutput", "RAWoutput", "AODoutput"}

\* C3: for every step k > 1 of every job, fileNames is the single path
\* file:../step<k-1>/<module>.root with <module> the module whose fileName
\* override step k-1 sets to file:<module>.root, and maxEvents is -1.
C3_ChainInput ==
  \A i \in 1..Len(jobs_out) : \A k \in 2..NumSteps(req) :
    \E m \in KnownModules :
      /\ K_fileName(m) \in DOMAIN TweakOf(i, k - 1)
      /\ TweakOf(i, k - 1)[K_fileName(m)] =
           "customTypeCms.untracked.string('file:" \o m \o ".root')"
      /\ K_fileNames \in DOMAIN TweakOf(i, k)
      /\ TweakOf(i, k)[K_fileNames] =
           "customTypeCms.untracked.vstring(['file:../step" \o ToString(k - 1)
             \o "/" \o m \o ".root'])"
      /\ TweakOf(i, k)[K_maxEvents] =
           "customTypeCms.untracked.PSet(input=cms.untracked.int32(-1))"

C3_Witness ==
  /\ jobs_out # <<>>
  /\ NumSteps(req) = 3
  /\ req.InputFromOutputModule[2] = None
  /\ req.InputFromOutputModule[3] = Some("AODoutput")
  /\ K_fileNames \in DOMAIN TweakOf(1, 3)

\* the overrides of a tweak that are neither source nor maxEvents overrides
OutputKeys(t) ==
  (DOMAIN t) \ {K_firstLumi, K_maxEvents, K_firstEvent, K_firstRun,
                K_lumisToProcess, K_fileNames}

\* C4: every step k < stepCount of every job has exactly one output-filename
\* override, process.<module>.fileName = file:<module>.root on the module the
\* next step consumes; the final step has none.
C4_OutputRename ==
  \A i \in 1..Len(jobs_out) : \A k \in 1..NumSteps(req) :
    IF k < NumSteps(req)
    THEN /\ OutputKeys(TweakOf(i, k)) = {K_fileName(InputModule(req, k + 1))}
         /\ TweakOf(i, k)[K_fileName(InputModule(req, k + 1))] =
              "customTypeCms.untracked.string('file:"
                \o InputModule(req, k + 1) \o ".root')"
    ELSE OutputKeys(TweakOf(i, k)) = {}

C4_Witness ==
  /\ jobs_out # <<>>
  /\ NumSteps(req) = 3
  /\ req.InputFromOutputModule[2] = Some("RAWoutput")
  /\ OutputKeys(TweakOf(1, 1)) = {"process.RAWoutput.fileName"}
  /\ OutputKeys(TweakOf(1, 3)) = {}

\* tweak t carries the event mask of mask
EncodesMask(t, mask) ==
  /\ IF mask.FirstLumi # None
     THEN K_firstLumi \in DOMAIN t /\ t[K_firstLumi] = Uint32(Val(mask.FirstLumi))
     ELSE K_firstLumi \notin DOMAIN t
  /\ IF mask.FirstEvent # None
     THEN K_firstEvent \in DOMAIN t /\ t[K_firstEvent] = Uint32(Val(mask.FirstEvent))
     ELSE K_firstEvent \notin DOMAIN t
  /\ K_firstRun \in DOMAIN t
  /\ t[K_firstRun] = Uint32(IF mask.FirstRun = None THEN 1 ELSE Val(mask.FirstRun))
  /\ K_maxEvents \in DOMAIN t
  /\ t[K_maxEvents] =
       MaxEventsPSet(IF mask.FirstEvent # None /\ mask.LastEvent # None
                     THEN Val(mask.LastEvent) - Val(mask.FirstEvent) + 1
                     ELSE -1)

\* a direct call has returned, made the way step 1 is built (no chained input)
Step1Call == pc = "tweaked" /\ t_in.chain_input_file = None

\* C5: step 1's override set encodes the mask: firstLuminosityBlock = FirstLumi,
\* firstEvent = FirstEvent, firstRun = FirstRun (1 when absent) and maxEvents =
\* LastEvent - FirstEvent + 1 when both bounds are present, else -1; both for a
\* direct call and for step 1 of every job descriptor of the splitter.
C5_Step1EncodesMask ==
  /\ Step1Call => EncodesMask(Val(t_out), t_in.mask)
  /\ \A i \in 1..Len(jobs_out) :
       EncodesMask(TweakOf(i, 1), masks[jobs_out[i].job_index])

C5_Witness ==
  /\ Step1Call
  /\ t_in.mask.FirstRun = None
  /\ t_in.mask.FirstEvent = Some(3)
  /\ t_in.mask.LastEvent = Some(5)
  /\ Val(t_out)[K_maxEvents] = MaxEventsPSet(3)
  /\ Val(t_out)[K_firstRun] = Uint32(1)

\* the two-element pairs of a run-to-lumi list, as <<run, first, last>>, in order
RECURSIVE LumiRanges(_)
LumiRanges(runs) ==
  IF runs = <<>> THEN <<>>
  ELSE LET run == runs[1][1]
           pairs == SelectSeq(runs[1][2], LAMBDA p : Len(p) = 2)
       IN [j \in 1..Len(pairs) |-> <<run, pairs[j][1], pairs[j][2]>>]
            \o LumiRanges(Tail(runs))

\* the lumisToProcess value listing the ranges rs
RangesValue(rs) ==
  "customTypeCms.untracked.VLuminosityBlockRange("
    \o StrList([j \in 1..Len(rs) |->
                  ToString(rs[j][1]) \o ":" \o ToString(rs[j][2]) \o "-"
                    \o ToString(rs[j][1]) \o ":" \o ToString(rs[j][3])])
    \o ")"

RunsOf(mask) == IF mask.runAndLumis = None THEN <<>> ELSE Val(mask.runAndLumis)

\* C6 as stated: when the run-to-lumi list holds [first, last] pairs, step 1
\* has lumisToProcess listing every pair instead of a scalar event count
\* (maxEvents stays -1); with an empty or absent list it has no lumisToProcess.
C6_LumisInsteadOfCount ==
  Step1Call =>
    IF LumiRanges(RunsOf(t_in.mask)) # <<>>
    THEN /\ K_lumisToProcess \in DOMAIN Val(t_out)
         /\ Val(t_out)[K_lumisToProcess] = RangesValue(LumiRanges(RunsOf(t_in.mask)))
         /\ Val(t_out)[K_maxEvents] = MaxEventsPSet(-1)
    ELSE K_lumisToProcess \notin DOMAIN Val(t_out)

\* C6 amended: when the run-to-lumi list holds at least one two-element
\* [first, last] pair, step 1 has lumisToProcess listing run:first-run:last for
\* every such pair, next to the maxEvents override (which keeps its scalar
\* count); when it holds none (empty or absent list), step 1 has no
\* lumisToProcess.
C6_LumisNextToCount ==
  Step1Call =>
    /\ IF LumiRanges(RunsOf(t_in.mask)) # <<>>
       THEN /\ K_lumisToProcess \in DOMAIN Val(t_out)
            /\ Val(t_out)[K_lumisToProcess] =
                 RangesValue(LumiRanges(RunsOf(t_in.mask)))
       ELSE K_lumisToProcess \notin DOMAIN Val(t_out)
    /\ Val(t_out)[K_maxEvents] =
         MaxEventsPSet(IF t_in.mask.FirstEvent # None /\ t_in.mask.LastEvent # None
                       THEN Val(t_in.mask.LastEvent) - Val(t_in.mask.FirstEvent) + 1
                       ELSE -1)

C6_Witness ==
  /\ Step1Call
  /\ Len(RunsOf(t_in.mask)) = 2
  /\ t_in.mask.FirstEvent = Some(1)
  /\ t_in.mask.LastEvent = Some(3)
  /\ Val(t_out)[K_lumisToProcess] =
       "customTypeCms.untracked.VLuminosityBlockRange(['1:1-1:1', '2:3-2:5'])"
  /\ Val(t_out)[K_maxEvents] = MaxEventsPSet(3)

\* the documents lack nothing and ask for event-based splitting
OtherwiseValid ==
  /\ req.missing = {}
  /\ splitting.hasProduction
  /\ splitting.splitAlgo = "EventBased"

BadSplitParameter ==
  \/ splitting.events_per_job <= 0
  \/ splitting.events_per_lumi <= 0
  \/ req.RequestNumEvents <= 0

\* C7: with documents that are otherwise valid, eventsPerJob <= 0,
\* eventsPerLumi <= 0 or totalEvents <= 0 makes splitting fail with a
\* configuration error that names the field, with no mask and no job descriptor.
C7_FailsWithConfigurationError ==
  (OtherwiseValid /\ BadSplitParameter) =>
    /\ ~MasksProduced
    /\ masks = <<>>
    /\ jobs_out = <<>>
    /\ pc = "failed" =>
         err.kind \in {"ConfigurationError", "RuntimeError"} /\ err.field # ""

\* nothing but the algorithm name is wrong with the documents, up to the call
\* of the factory
ValidUpToFactory ==
  /\ req.missing = {}
  /\ splitting.hasProduction
  /\ req.EventsPerLumi # 0

ClaimedRequired == {"Step1", "StepChain", "TimePerEvent", "Memory", "PrepID", "StepName"}

LacksRequired == req.missing \cap ClaimedRequired # {} \/ ~splitting.hasProduction

\* C9: when the request lacks Step1, StepChain, TimePerEvent, Memory, PrepID
\* or Step1.StepName, or the splitting document lacks a Production entry, the
\* splitter ends at its checks with an error naming a missing field: no mask
\* exists, no job descriptor was built, no file was opened for writing.
C9_AbortsBeforeOutput ==
  LacksRequired =>
    /\ pc \in {"start", "failed"}
    /\ masks = <<>>
    /\ jobs_out = <<>>
    /\ written = <<>>
    /\ dir = {}
    /\ pc = "failed" =>
         /\ err.kind = "RuntimeError"
         /\ \/ err.field \in req.missing \cap ClaimedRequired
            \/ err.field = "Production" /\ ~splitting.hasProduction

C9_Witness ==
  /\ pc = "failed"
  /\ req.missing = {"StepChain"}
  /\ err = [kind |-> "RuntimeError", field |-> "StepChain"]

\* the splitter wrote its descriptors and discovery has run on the directory
WrittenAndDiscovered == pc = "done" /\ args.output_dir /\ dpc # "idle"

OneToJ == [i \in 1..Len(jobs_out) |-> i]

\* C10 as stated: writing J descriptors into a directory and then discovering
\* returns exactly 1..J in ascending order.
C10_RoundTrip ==
  WrittenAndDiscovered => dpc = "discovered" /\ indices = OneToJ

\* the files of the directory that match job<N>.json are the descriptors written
OnlyOwnDescriptors ==
  \A name \in dir :
    PatternMatch(name) # None => \E i \in 1..Len(written) : written[i] = name

\* C10 amended: writing J descriptors into a directory whose only files
\* matching job<N>.json are those J descriptors, and then discovering,
\* returns exactly 1..J in ascending order, whatever the listing order.
C10_RoundTripOwnFiles ==
  (WrittenAndDiscovered /\ OnlyOwnDescriptors) =>
    dpc = "discovered" /\ indices = OneToJ

C10_Witness ==
  /\ WrittenAndDiscovered
  /\ OnlyOwnDescriptors
  /\ Len(jobs_out) = 3
  /\ TarballName \in dir
  /\ indices = <<1, 2, 3>>

\* ------------------------------------------------------------------- C11
NoDescriptor == \A name \in dir : PatternMatch(name) = None

NoJobsFound == Raise("SystemExit", "no job*.json files found")

\* C11: once discovery has run on a directory with no file named
\* job<N>.json, create_stepchain_dag has failed with the no-jobs error, the
\* index list is empty and was never returned, and neither the DAG file nor
\* the submit file exists; a discovery that succeeded returned a non-empty
\* list.
C11_NoJobsFound ==
  /\ (dpc # "idle" /\ NoDescriptor) =>
       /\ dpc = "failed"
       /\ derr = NoJobsFound
       /\ indices = <<>>
       /\ dag_file = None
       /\ submit_file = None
       /\ ~post_copy
  /\ (dpc \notin {"idle", "failed"}) => indices # <<>>

\* discovery failed on a directory that holds files, none of them a descriptor
C11_Witness ==
  /\ dpc = "failed"
  /\ derr = NoJobsFound
  /\ dir # {}
  /\ NoDescriptor

\* ------------------------------------------------------------------- C12
MissingAuxArchive == Raise("SystemExit", "request_psets.tar.gz not found")

\* the submit description f lists the archive in transfer_input_files
ListsArchive(f) ==
  \E i \in 1..Len(f.transfer_input_files) :
    f.transfer_input_files[i] = Plain(event_splitter_dir \o "/request_psets.tar.gz")

\* the DAG flavor: without the archive create_stepchain_dag gets no further
\* than its checks, fails with the no-jobs or the missing-archive error, and
\* writes neither file
C12_DagFlavor ==
  TarballName \notin dir =>
    /\ dpc \in {"idle", "discovered", "failed"}
    /\ dpc = "failed" => derr \in {NoJobsFound, MissingAuxArchive}
    /\ dpc = "failed" /\ ~NoDescriptor => derr = MissingAuxArchive
    /\ dag_file = None
    /\ submit_file = None

\* C12: while the splitter output directory holds no request_psets.tar.gz,
\* neither generator has written a submit description that lists the archive:
\* create_stepchain_dag has stopped at its checks, and create_stepchain_jdl
\* has written no JDL.
C12_MissingAuxArchive ==
  /\ C12_DagFlavor
  /\ (TarballName \notin dir /\ jdl_file # None) => ~ListsArchive(Val(jdl_file))

\* ------------------------------------------------------------------- C13
DagLines == Val(dag_file)

\* the lines of the DAG file that start with the keyword kw, in file order
Section(kw) == SelectSeq(DagLines, LAMBDA l : l # <<>> /\ l[1] = kw)

PositionsOf(kw) == {i \in 1..Len(DagLines) : DagLines[i] # <<>> /\ DagLines[i][1] = kw}

Before(kw1, kw2) == \A i \in PositionsOf(kw1), j \in PositionsOf(kw2) : i < j

RECURSIVE Ascending(_)
\* the elements of a set of integers in ascending order
Ascending(S) ==
  IF S = {} THEN <<>>
  ELSE LET m == CHOOSE x \in S : \A y \in S : x <= y
       IN <<m>> \o Ascending(S \ {m})

\* the discovered indices, each once, in ascending order
Discovered == Ascending({indices[k] : k \in DOMAIN indices})

\* the DAG file holds, for the indices D and nothing else, the JOB lines,
\* then the VARS lines, then the RETRY lines, then the SCRIPT lines
DagOf(D) ==
  /\ Section("JOB") = [k \in 1..Len(D) |-> <<"JOB", "Job" \o ToString(D[k]), "job.submit">>]
  /\ Section("VARS") =
       [k \in 1..Len(D) |->
          <<"VARS", "Job" \o ToString(D[k]), "JOB_ID=\"" \o ToString(D[k]) \o "\"">>]
  /\ Section("RETRY") =
       [k \in 1..Len(D) |->
          <<"RETRY", "Job" \o ToString(D[k]), ToString(dag_retries), "UNLESS-EXIT", "1">>]
  /\ Section("SCRIPT") =
       [k \in 1..Len(D) |->
          <<"SCRIPT", "DEFER", "1", ToString(post_defer_delay), "POST",
            "Job" \o ToString(D[k]), "postjob.py", "$JOB">>]
  /\ Before("JOB", "VARS")
  /\ Before("VARS", "RETRY")
  /\ Before("RETRY", "SCRIPT")
  /\ \A i \in 1..Len(DagLines) :
       \/ DagLines[i] = <<>>
       \/ DagLines[i][1] \in {"#", "JOB", "VARS", "RETRY", "SCRIPT"}

\* C13: a written DAG file has exactly one node JobN for each discovered
\* index N: one JOB line naming the shared submit file, one VARS line binding
\* JOB_ID to N, one RETRY line with UNLESS-EXIT 1 and one deferred POST SCRIPT
\* line; the four kinds of lines form four sections in this order, each in
\* ascending order of N.
C13_OneNodePerIndex == dag_file # None => DagOf(Discovered)

\* the same for a discovery that returned no index twice
C13_DistinctIndices ==
  (dag_file # None /\ Len(Discovered) = Len(indices)) => DagOf(Discovered)

\* ------------------------------------------------------------------- C14
\* a transfer_input_files entry with its macro bound to the job index n
Expand(entry, n) ==
  entry.prefix \o (IF entry.macro = "" THEN "" ELSE ToString(n)) \o entry.suffix

ExpandAll(entries, n) == [i \in 1..Len(entries) |-> Expand(entries[i], n)]

BothWritten == submit_file # None /\ jdl_file # None

\* the two descriptions name the same input files for every job, the same
\* sites and the same retry requirements
C14_SameFilesSitesRetry ==
  BothWritten =>
    /\ \A n \in 1..MaxEvents :
         ExpandAll(Val(submit_file).transfer_input_files, n)
           = ExpandAll(Val(jdl_file).transfer_input_files, n)
    /\ Val(submit_file).DESIRED_Sites = Val(jdl_file).DESIRED_Sites
    /\ Val(submit_file).requirements = Val(jdl_file).requirements

\* C14: when both generators have written their submit description for the
\* same request, site list and splitter output, the two agree on
\* request_cpus, request_memory, MaxWallTimeMins and REQUIRED_OS, on the
\* input files of every job, on DESIRED_Sites and on the requirements
\* expression.
C14_SameSubmitDescription ==
  /\ C14_SameFilesSitesRetry
  /\ BothWritten =>
       /\ Val(submit_file).request_cpus = Val(jdl_file).request_cpus
       /\ Val(submit_file).request_memory = Val(jdl_file).request_memory
       /\ Val(submit_file).MaxWallTimeMins = Val(jdl_file).MaxWallTimeMins
       /\ Val(submit_file).REQUIRED_OS = Val(jdl_file).REQUIRED_OS

\* ------------------------------------------------------------------- C15
\* the indices of the descriptor files in the directory
DescriptorIndices ==
  {ParseInt(Val(PatternMatch(name))) : name \in {n \in dir : PatternMatch(n) # None}}

\* the node names of the DAG file
DagNodes == {DagLines[i][2] : i \in PositionsOf("JOB")}

\* the DAG flavor: every node is JobN for an N whose job<N>.json the submit
\* file will transfer, and every descriptor file has its node
C15_DagFlavor ==
  dag_file # None =>
    /\ \A node \in DagNodes :
         \E n \in DescriptorIndices : node = "Job" \o ToString(n) /\ JobFileName(n) \in dir
    /\ \A n \in DescriptorIndices : ("Job" \o ToString(n)) \in DagNodes

\* the indices the JDL queues
JdlQueued == Val(jdl_file).Queue.first .. Val(jdl_file).Queue.last

\* C15: once the splitter has ended, the indices either artifact schedules
\* are those of the descriptor files in the directory: every DAG node and
\* every index of the JDL's Queue range has its job<N>.json, and every
\* descriptor file is a DAG node and lies in the Queue range.
C15_ScheduledAreDescriptors ==
  /\ C15_DagFlavor
  /\ (jdl_file # None /\ pc \in {"done", "failed"}) =>
       /\ \A n \in JdlQueued : JobFileName(n) \in dir
       /\ \A n \in DescriptorIndices : n \in JdlQueued

\* ------------------------------------------------------------------- C16
\* m is the ceiling of a / b, for b # 0
IsCeil(m, a, b) ==
  IF b > 0 THEN m * b >= a /\ (m - 1) * b < a
  ELSE m * b <= a /\ (m - 1) * b > a

\* the job count the request gives: TotalEstimatedJobs when present, else
\* ceil(Step1.RequestNumEvents / Step1.EventsPerJob) when both are present
\* and EventsPerJob is not 0, else None
RequestN ==
  IF extra.TotalEstimatedJobs # None THEN extra.TotalEstimatedJobs
  ELSE IF /\ "Step1" \notin req.missing
          /\ extra.EventsPerJob # None
          /\ Val(extra.EventsPerJob) # 0
  THEN Some(CHOOSE m \in (-MaxEvents - 1)..(MaxEvents + 1) :
              IsCeil(m, req.RequestNumEvents, Val(extra.EventsPerJob)))
  ELSE None

NumJobsErrors ==
  {Raise("SystemExit", "request.json must have TotalEstimatedJobs or Step1.RequestNumEvents/EventsPerJob"),
   Raise("SystemExit", "num_jobs must be positive")}

\* C16: once create_stepchain_jdl has read the request: if the request gives
\* no job count N or gives N <= 0, the generator has failed with a job-count
\* error and no JDL exists; otherwise it has not failed with a job-count
\* error, and a written JDL queues the one description over Index = 1..N.
C16_QueueOneToN ==
  jpc \notin {"off", "start"} =>
    IF RequestN = None \/ Val(RequestN) <= 0
    THEN jpc = "failed" /\ jerr \in NumJobsErrors /\ jdl_file = None
    ELSE /\ jerr \notin NumJobsErrors
         /\ jpc = "done" => jdl_file # None
         /\ jdl_file # None =>
              Val(jdl_file).Queue = [var |-> "Index", first |-> 1, last |-> Val(RequestN)]

\* a JDL written for a request without TotalEstimatedJobs whose events do not
\* divide evenly
C16_Witness ==
  /\ jdl_file # None
  /\ extra.TotalEstimatedJobs = None
  /\ req.RequestNumEvents = 3
  /\ extra.EventsPerJob = Some(2)
  /\ Val(jdl_file).Queue.last = 2

\* ------------------------------------------------------------------- C17
\* the request gives a positive TimePerEvent and a positive Step1.EventsPerJob
PositiveTimes ==
  /\ req_params # None
  /\ "TimePerEvent" \notin req.missing
  /\ "Step1" \notin req.missing
  /\ extra.TimePerEvent > 0
  /\ extra.EventsPerJob # None
  /\ Val(extra.EventsPerJob) > 0

\* 3 * TimePerEvent * EventsPerJob: 120 times the wall time in minutes
Seconds120 == 3 * extra.TimePerEvent * Val(extra.EventsPerJob)

\* C17: for a positive TimePerEvent and a positive EventsPerJob the wall time
\* read from the request is the smallest integer m with
\* 120 * m >= 3 * TimePerEvent * EventsPerJob, it is 13 for 5 and 100, and a
\* written JDL carries it as MaxWallTimeMins.
C17_WallTime ==
  PositiveTimes =>
    /\ Val(req_params).walltime_mins # None
    /\ LET m == Val(Val(req_params).walltime_mins)
       IN /\ 120 * m >= Seconds120
          /\ 120 * (m - 1) < Seconds120
          /\ (extra.TimePerEvent = 5 /\ Val(extra.EventsPerJob) = 100) => m = 13
          /\ jdl_file # None => Val(jdl_file).MaxWallTimeMins = ToString(m)

\* the JDL written for TimePerEvent = 5 and EventsPerJob = 100
C17_Witness ==
  /\ PositiveTimes
  /\ extra.TimePerEvent = 5
  /\ Val(extra.EventsPerJob) = 100
  /\ jdl_file # None
  /\ Val(jdl_file).MaxWallTimeMins = "13"

\* ------------------------------------------------------------------- C18
\* what the prefix table gives for the tags of the inputs: slc7 is rhel7,
\* el8 is rhel8, el9 is rhel9, and osx and el are not in the table
TagOs(tag) ==
  CASE tag = Arch_slc7 -> Some("rhel7")
    [] tag = Arch_el8 -> Some("rhel8")
    [] tag = Arch_el9 -> Some("rhel9")
    [] OTHER -> None

\* the request gives one non-empty architecture tag
OneTag ==
  /\ extra.ScramArch # None
  /\ Val(extra.ScramArch).kind = "str"
  /\ Val(extra.ScramArch).archs[1] # <<>>

TheTag == Val(extra.ScramArch).archs[1]

\* the OS requirement is os for a request with one tag when unknown is what
\* a prefix outside the table gives, and rhel7 for a request without a tag
OsRequirement(os, unknown) ==
  /\ extra.ScramArch = None => os = "rhel7"
  /\ OneTag => os = (IF TagOs(TheTag) # None THEN Val(TagOs(TheTag)) ELSE unknown)

\* C18: the OS requirement read from the request is what the prefix table
\* gives for the architecture tag, and it is rhel7 both when the request has
\* no tag and when the prefix of the tag is not in the table.
C18_UnknownIsBaseline ==
  req_params # None => OsRequirement(Val(req_params).required_os, "rhel7")

\* C18 amended: the OS requirement is what the prefix table gives for the
\* tag, rhel7 when the request has no tag, and "any" when the prefix of the
\* tag is not in the table; a list of tags gives the sorted, comma-separated
\* values of its known prefixes; a written JDL carries it as REQUIRED_OS.
C18_UnknownIsAny ==
  req_params # None =>
    /\ OsRequirement(Val(req_params).required_os, "any")
    /\ extra.ScramArch = ListArch(<<Arch_el8, Arch_slc7>>) =>
         Val(req_params).required_os = "rhel7,rhel8"
    /\ extra.ScramArch = ListArch(<<Arch_osx, Arch_el9>>) =>
         Val(req_params).required_os = "rhel9"
    /\ jdl_file # None =>
         Val(jdl_file).REQUIRED_OS = "\"" \o Val(req_params).required_os \o "\""

\* a JDL written for the tag osx_arm64, whose prefix the table lacks
C18_Witness ==
  /\ OneTag
  /\ TheTag = Arch_osx
  /\ jdl_file # None
  /\ Val(jdl_file).REQUIRED_OS = "\"any\""

\* ------------------------------------------------------------------- C19
\* the site list is a file without a non-blank line
EmptySiteList ==
  /\ sitelist # None
  /\ \A i \in 1..Len(Val(sitelist)) :
       \A k \in 1..Len(Val(sitelist)[i]) : Val(sitelist)[i][k] \in {" ", "\n"}

SiteListIsEmpty == Raise("SystemExit", "sitelist file is empty")

\* C19: with a site list that has no non-blank line, neither generator gets
\* past reading the site list: no DAG file, submit file, post script copy or
\* JDL is ever written, and a generator that has ended has failed with a
\* SystemExit that names its cause, the empty site list unless an earlier
\* check failed.
C19_EmptySiteListWritesNothing ==
  EmptySiteList =>
    /\ dag_file = None
    /\ submit_file = None
    /\ ~post_copy
    /\ jdl_file = None
    /\ dpc \in {"idle", "discovered", "checked", "failed"}
    /\ jpc \in {"start", "params", "failed"}
    /\ dpc = "failed" =>
         /\ derr \in {NoJobsFound, MissingAuxArchive, SiteListIsEmpty}
         /\ (~NoDescriptor /\ TarballName \in dir) => derr = SiteListIsEmpty
    /\ jpc = "failed" =>
         /\ jerr \in NumJobsErrors \cup {SiteListIsEmpty}
         /\ req_params # None
         /\ CheckNumJobs(Val(req_params).num_jobs) = NoError => jerr = SiteListIsEmpty

\* both generators have failed on a site list of blank lines
C19_Witness ==
  /\ EmptySiteList
  /\ Val(sitelist) # <<>>
  /\ dpc = "failed"
  /\ derr = SiteListIsEmpty
  /\ jpc = "failed"
  /\ jerr = SiteListIsEmpty

\* ------------------------------------------------------------------- C20
\* the indices of the descriptors written so far
WrittenIndices == {jobs_out[k].job_index : k \in 1..Len(written)}

\* the descriptors written before a failure are still in the directory
C20_WrittenLeftInPlace ==
  pc = "failed" =>
    \A k \in 1..Len(written) : written[k] = JobFileName(k) /\ written[k] \in dir

\* C20: when the splitter has failed after writing some of the per-job
\* files, either every per-job file was written, or the error it ended with
\* is a PartialWriteFailure that carries the indices written so far; the
\* files written before the failure are still in the directory.
C20_PartialWriteFailure ==
  /\ C20_WrittenLeftInPlace
  /\ (pc = "failed" /\ written # <<>>) =>
       \/ Len(written) >= Len(jobs_out)
       \/ /\ err.kind = "PartialWriteFailure"
          /\ "indices" \in DOMAIN err
          /\ err.indices = WrittenIndices

\* ------------------------------------------------------------------- C21
\* a run of the splitter with --output-dir has ended normally
WriteRunDone == pc = "done" /\ args.output_dir

\* this run wrote the per-job files and the archive, and the archive holds
\* the request as request.json and the PSets tree as PSets
ArchiveProduced ==
  /\ Len(written) = Len(jobs_out) + 1
  /\ \A k \in 1..Len(jobs_out) : written[k] = JobFileName(k)
  /\ written[Len(written)] = TarballName
  /\ TarballName \in dir
  /\ archive = Some(<<[arcname |-> "request.json", source |-> "--request"],
                      [arcname |-> "PSets", source |-> "--psets"]>>)

\* this run wrote the per-job files only, and the archive is as it was: the
\* one an earlier run left, or none
ArchiveUntouched ==
  /\ Len(written) = Len(jobs_out)
  /\ \A k \in 1..Len(jobs_out) : written[k] = JobFileName(k)
  /\ archive = IF TarballName \in dir THEN Some(StaleArchive) ELSE None

C22_ContiguousIndices ==
  /\ \A k \in 1..Len(jobs_out) : jobs_out[k].job_index = k
  /\ pc \in {"writing", "done"} => Len(jobs_out) = Len(masks)

\* a run that returned three descriptors
C22_Witness ==
  /\ pc = "done"
  /\ Len(jobs_out) = 3
  /\ jobs_out[3].job_index = 3

\* ------------------------------------------------------------------- C23
FL(i) == Val(masks[i].FirstLumi)

LL(i) == Val(masks[i].LastLumi)

Discovered24 == file_list # None

\* the steps of the chain the request marks KeepOutput
KeptSteps ==
  IF stage_req = None THEN {}
  ELSE {n \in 1..GetOr(Val(stage_req).StepChain, 1) :
          /\ n \in DOMAIN Val(stage_req).Steps
          /\ Val(stage_req).Steps[n] # None
          /\ Val(Val(stage_req).Steps[n]).KeepOutput = Some(TRUE)}

\* the returned files that lie in the directory of step n
FilesOfStep(n) ==
  {k \in 1..Len(Val(file_list)) : Val(file_list)[k].local_path[1] = StepDirName(n)}

\* every returned file lies in the directory of a step marked KeepOutput
OnlyKeptSteps ==
  \A k \in 1..Len(Val(file_list)) : \E n \in KeptSteps : k \in FilesOfStep(n)

\* the file name step n is expected to have produced: the module the next
\* step reads (RAWSIMoutput by default), or for the last step the first
\* *.root entry of its directory
ExpectedName(n) ==
  LET r == Val(stage_req)
      listing == Val(work_dir[n])
  IN IF n < GetOr(r.StepChain, 1)
     THEN LET next == r.Steps[n + 1]
          IN IF next = None \/ Val(next).InputFromOutputModule = None
             THEN Some(RAWSIMoutput \o RootSuffix)
             ELSE Some(Val(Val(next).InputFromOutputModule) \o RootSuffix)
     ELSE IF work_dir[n] = None THEN None
     ELSE LET roots == {i \in 1..Len(listing) : EndsWith(listing[i], RootSuffix)}
          IN IF roots = {} THEN None
             ELSE Some(listing[CHOOSE i \in roots : \A j \in roots : i <= j])

\* the output of step n is there to be staged: its expected file exists in
\* its directory and has a module name before ".root"
OutputPresent(n) ==
  /\ work_dir[n] # None
  /\ ExpectedName(n) # None
  /\ Val(ExpectedName(n)) # RootSuffix
  /\ \E i \in 1..Len(Val(work_dir[n])) : Val(work_dir[n])[i] = Val(ExpectedName(n))

\* C24: the files discovery returns are those of exactly the steps marked
\* KeepOutput: every returned file belongs to a step marked KeepOutput, and
\* every step marked KeepOutput contributes one file.
C24_ExactlyKeepOutput ==
  Discovered24 =>
    /\ OnlyKeptSteps
    /\ \A n \in KeptSteps : Cardinality(FilesOfStep(n)) = 1

\* C24 amended: every returned file belongs to a step marked KeepOutput, and
\* a step marked KeepOutput contributes one file when its output file is in
\* its step directory and none when it is not.
C24_KeepOutputAndPresent ==
  Discovered24 =>
    /\ OnlyKeptSteps
    /\ \A n \in KeptSteps :
         Cardinality(FilesOfStep(n)) = IF OutputPresent(n) THEN 1 ELSE 0

\* a chain of two steps, one marked KeepOutput and one not, each with its
\* output file: one file is returned, that of the marked step
C24_Witness ==
  /\ Discovered24
  /\ stage_req # None
  /\ Val(stage_req).StepChain = Some(2)
  /\ KeptSteps = {1}
  /\ Val(stage_req).Steps[2] # None
  /\ Val(Val(stage_req).Steps[2]).KeepOutput = Some(FALSE)
  /\ OutputPresent(1)
  /\ work_dir[2] = Some(<<RAWSIMoutput \o RootSuffix>>)
  /\ Len(Val(file_list)) = 1
  /\ Val(file_list)[1].local_path = <<"step1", AODSIMoutput \o RootSuffix>>

\* ------------------------------------------------------------------- C25
\* the k-th invocation had a node name as its argument
ForNode(k) == exits[k].argv # None

\* an invocation before the k-th had the same argument
InvokedBefore(k) == \E j \in 1..(k - 1) : exits[j].argv = exits[k].argv

\* C25: an invocation of the POST script with a node name exits 1 when it
\* is the first one for that node and 0 when an earlier one had the same
\* node name, whatever invocations for other nodes lie in between; and the
\* working directory holds one state file for each name invoked so far.
C25_DeferOncePerNode ==
  /\ \A k \in 1..Len(exits) :
       ForNode(k) => exits[k].code = IF InvokedBefore(k) THEN 0 ELSE 1
  /\ cwd = {"postjob_" \o GetOr(exits[k].argv, "unknown") \o "_state" :
              k \in 1..Len(exits)}

\* Job1 was deferred, then Job2 was deferred, then Job1 passed twice
C25_Witness ==
  /\ Len(exits) = 4
  /\ exits[1] = [argv |-> Some("Job1"), code |-> 1]
  /\ exits[2] = [argv |-> Some("Job2"), code |-> 1]
  /\ exits[3] = [argv |-> Some("Job1"), code |-> 0]
  /\ exits[4] = [argv |-> Some("Job1"), code |-> 0]

\* ------------------------------------------------------------------- C26
\* the splitting document with the LHE-input flag flipped
FlippedSplitting == [splitting EXCEPT !.lheInputFiles = ~splitting.lheInputFiles]

\* C26: the result of a direct build_job_tweak_json call equals the result
\* of the same call with lhe_input flipped, and the tweaks of every
\* descriptor of a splitter run equal the tweaks built from the same mask
\* with lheInputFiles flipped: the flag has no effect on any override set.
C26_LheInputIgnored ==
  /\ t_out # None =>
       t_out = Some(build_job_tweak_json(t_in.mask, ~t_in.lhe_input,
                                         t_in.chain_input_file,
                                         t_in.set_output_filename,
                                         t_in.output_module_name))
  /\ splitting # None =>
       \A k \in 1..Len(jobs_out) :
          jobs_out[k].tweaks = BuildTweaks(req, FlippedSplitting, masks[k])

\* a direct call with lhe_input = true on a mask with a first event and a
\* chained input has returned, and the override set names the first event
C26_Witness ==
  /\ t_out # None
  /\ t_in.lhe_input
  /\ t_in.mask.FirstEvent = Some(3)
  /\ Truthy(t_in.chain_input_file)
  /\ K_firstEvent \in DOMAIN Val(t_out)
  /\ Val(t_out)[K_firstEvent] = "customTypeCms.untracked.uint32(3)"

\* ------------------------------------------------------------------- C27
\* C27: the list job discovery returns is strictly ascending, so it holds no
\* index twice; every index is a positive integer; for every returned index
\* N the file job<N>.json is in the directory; and no two elements of the
\* list give the same DAG node name.
C27_DiscoveryIndices ==
  (dpc # "idle" /\ derr = NoError) =>
    /\ \A i, j \in 1..Len(indices) : i < j => indices[i] < indices[j]
    /\ \A k \in 1..Len(indices) : indices[k] >= 1
    /\ \A k \in 1..Len(indices) : JobFileName(indices[k]) \in dir
    /\ \A i, j \in 1..Len(indices) : i # j => NodeName(indices[i]) # NodeName(indices[j])

====
